---------------------------- MODULE Spec2Model ----------------------------
(***************************************************************************)
(* SafetyTAP content engine: the daily generator (daily-generate.js), the  *)
(* schedule initializer (init-schedule.js) and the two HTTP handlers that  *)
(* write the Schedule Store (upload-image.ts), as a state machine over the *)
(* files they share: topic-bank.json, schedule.json and the blog           *)
(* directory; with the batch combiner (combine-topics.js), which writes    *)
(* topic-bank.json, and the first generator (generate.js), which writes    *)
(* the blog directory.                                                     *)
(*                                                                         *)
(* Representation.  A file that may be missing is a sequence of length 0   *)
(* or 1.  A JavaScript object with optional fields is a function whose     *)
(* domain is the set of fields it has.  A calendar date string             *)
(* "YYYY-MM-DD" is the tuple of its three numeric fields.  A string that   *)
(* the matcher searches inside is a sequence of one-character strings.     *)
(***************************************************************************)
EXTENDS Integers, Sequences, FiniteSets, TLC

VARIABLES
    topicBank,   \* topic-bank.json: <<>> if missing, else <<sequence of topics>>
    schedFile,   \* schedule.json: <<>> if missing, else <<schedule>>
    blog,        \* src/content/blog: the slugs s with a file <s>.mdx
    pc,          \* position of each generator run
    local,       \* local variables of each generator run
    outcome,     \* how the last invocation of each process ended
    effects,     \* side effects of each process's current/last invocation, in order
    taint,       \* what disturbed each process's current/last invocation
    stuck,       \* days whose run was killed between the two writes
    call         \* the last application of a pure function (pure specifications),
                 \* or the invocations of generate.js

vars == <<topicBank, schedFile, blog, pc, local, outcome, effects,
          taint, stuck, call>>

-----------------------------------------------------------------------------
(* Bounds of the model and constants of the program *)

NumTopics == 2          \* topics in the small Topic Bank
LastDay == 180          \* the generator scans days 1..180
ResearchLimit == 3      \* .slice(0, 3)
ScoreThreshold == 50    \* relevanceScore 0.5, scores in hundredths
MaxItems == 4           \* feed items in a matcher input
SelDays == 4            \* topics in the largest bank of a selector input

None == <<>>
Some(x) == <<x>>
Has(obj, f) == f \in DOMAIN obj

-----------------------------------------------------------------------------
(* JavaScript semantics used by the code *)

\* Date.UTC(year, month, day) in days since 1970-01-01 (ECMAScript MakeDay),
\* month 0-based and day free to overflow the month.
InLeapYear(y) == (y % 4 = 0) /\ ((y % 100 # 0) \/ (y % 400 = 0))

DayFromYear(y) ==
    365 * (y - 1970) + ((y - 1969) \div 4) - ((y - 1901) \div 100)
        + ((y - 1601) \div 400)

MonthStart(leap, mn) ==
    LET l == IF leap THEN 1 ELSE 0
    IN  CASE mn = 0 -> 0
          [] mn = 1 -> 31
          [] mn = 2 -> 59 + l
          [] mn = 3 -> 90 + l
          [] mn = 4 -> 120 + l
          [] mn = 5 -> 151 + l
          [] mn = 6 -> 181 + l
          [] mn = 7 -> 212 + l
          [] mn = 8 -> 243 + l
          [] mn = 9 -> 273 + l
          [] mn = 10 -> 304 + l
          [] mn = 11 -> 334 + l
          [] OTHER -> 365 + l

DateUTC(year, month, date) ==
    LET yr == IF year >= 0 /\ year <= 99 THEN 1900 + year ELSE year
        ym == yr + (month \div 12)
        mn == month % 12
    IN  DayFromYear(ym) + MonthStart(InLeapYear(ym), mn) + date - 1

\* new Date(t).toISOString().split('T')[0] for a time t at midnight UTC,
\* t in days (ECMAScript YearFromTime, MonthFromTime, DateFromTime).
YearFromTime(t) ==
    LET guess == 1970 + (t \div 365)
    IN  CHOOSE y \in (guess - 2)..(guess + 1) :
            DayFromYear(y) <= t /\ t < DayFromYear(y + 1)

ToISODate(t) ==
    LET y == YearFromTime(t)
        leap == InLeapYear(y)
        dwy == t - DayFromYear(y)
        mn == CHOOSE k \in 0..11 :
                  MonthStart(leap, k) <= dwy /\ dwy < MonthStart(leap, k + 1)
    IN  <<y, mn + 1, dwy - MonthStart(leap, mn) + 1>>

\* Characters: lower-case letters are themselves, "A".."C" have lower case
\* "a".."c"; " " and "-" are the separators the code splits on.
LowerChar(c) ==
    CASE c = "A" -> "a"
      [] c = "B" -> "b"
      [] c = "C" -> "c"
      [] OTHER -> c

\* String.prototype.toLowerCase
ToLowerCase(s) == [i \in 1..Len(s) |-> LowerChar(s[i])]

\* String.prototype.includes: sub occurs in s as a contiguous substring
Includes(s, sub) ==
    \E i \in 0..(Len(s) - Len(sub)) :
        \A j \in 1..Len(sub) : s[i + j] = sub[j]

\* String.prototype.split(sep) for a one-character separator: the pieces
\* between separators, empty pieces included.
RECURSIVE SplitFrom(_, _, _, _)
SplitFrom(s, sep, i, cur) ==
    IF i > Len(s) THEN <<cur>>
    ELSE IF s[i] = sep THEN <<cur>> \o SplitFrom(s, sep, i + 1, <<>>)
    ELSE SplitFrom(s, sep, i + 1, Append(cur, s[i]))

Split(s, sep) == SplitFrom(s, sep, 1, <<>>)

\* Array.prototype.slice(0, n)
SliceTo(s, n) == SubSeq(s, 1, IF Len(s) < n THEN Len(s) ELSE n)

\* JavaScript values of a field that may hold anything: a tagged record.
JsUndefined == [t |-> "undefined"]
JsNull == [t |-> "null"]
JsNum(n) == [t |-> "number", v |-> n]

\* x < 0.5 for a relevanceScore x: a number (in hundredths) compares
\* numerically; undefined and a non-numeric string convert to NaN, and every
\* comparison with NaN is false; null converts to 0.
JsLessThanHalf(x) ==
    CASE x["t"] = "number" -> x["v"] < ScoreThreshold
      [] x["t"] = "null" -> TRUE
      [] OTHER -> FALSE

-----------------------------------------------------------------------------
(* daily-generate.js: pure functions *)

Published(posts, day) ==
    /\ day \in DOMAIN posts
    /\ Has(posts[day], "status")
    /\ posts[day]["status"] = "published"

\* A selector that takes any entry of a day for a published one
getNextScheduledDayAnyEntry(schedule) ==
    LET posts == IF Has(schedule, "posts") THEN schedule["posts"] ELSE <<>>
    IN  IF \A day \in 1..LastDay : day \in DOMAIN posts THEN 0
        ELSE CHOOSE day \in 1..LastDay :
                 /\ day \notin DOMAIN posts
                 /\ \A earlier \in 1..(day - 1) : earlier \in DOMAIN posts

\* A selector that returns the last day that is not published
getNextScheduledDayLast(schedule) ==
    LET posts == IF Has(schedule, "posts") THEN schedule["posts"] ELSE <<>>
    IN  IF \A day \in 1..LastDay : Published(posts, day) THEN 0
        ELSE CHOOSE day \in 1..LastDay :
                 /\ ~Published(posts, day)
                 /\ \A later \in (day + 1)..LastDay : Published(posts, later)

\* getNextScheduledDay: the first day of 1..180, in the loop's order, that is
\* not published; 0 stands for null
getNextScheduledDay(schedule) ==
    LET posts == IF Has(schedule, "posts") THEN schedule["posts"] ELSE <<>>
    IN  IF \A day \in 1..LastDay : Published(posts, day) THEN 0
        ELSE CHOOSE day \in 1..LastDay :
                 /\ ~Published(posts, day)
                 /\ \A earlier \in 1..(day - 1) : Published(posts, earlier)

\* A date mapping that counts day 1 as one day after the start date
getDateForDayOffByOne(schedule, day) ==
    LET y == schedule["startDate"][1]
        m == schedule["startDate"][2]
        d == schedule["startDate"][3]
    IN  ToISODate(DateUTC(y, m - 1, d + day))

\* getDateForDay(schedule, day) of the generator
getDateForDay(schedule, day) ==
    LET y == schedule["startDate"][1]
        m == schedule["startDate"][2]
        d == schedule["startDate"][3]
    IN  ToISODate(DateUTC(y, m - 1, d + (day - 1)))

\* findRelevantResearch(topic, feed); feed is None for null, an item's
\* optional fields are absent from its domain.
PillarMatch(topic, item) ==
    /\ Has(item, "relevancePillars")
    /\ \E i \in 1..Len(item["relevancePillars"]) :
          LET p == item["relevancePillars"][i]
          IN  \/ p = topic["pillar"]
              \/ Includes(p, Split(topic["pillar"], "-")[1])

KeywordMatch(topic, item) ==
    LET kws == Split(topic["targetKeyword"], " ")
    IN  \E i \in 1..Len(kws) :
          \/ Includes(ToLowerCase(item["title"]), kws[i])
          \/ /\ Has(item, "summary")
             /\ Includes(ToLowerCase(item["summary"]), kws[i])

ItemScore(item) ==
    IF Has(item, "relevanceScore") THEN item["relevanceScore"] ELSE JsUndefined

Relevant(topic, item) ==
    /\ ~JsLessThanHalf(ItemScore(item))
    /\ (PillarMatch(topic, item) \/ KeywordMatch(topic, item))

\* feed.items.filter(...), keeping order
RECURSIVE FilterRelevant(_, _)
FilterRelevant(topic, items) ==
    IF items = <<>> THEN <<>>
    ELSE IF Relevant(topic, Head(items))
         THEN <<Head(items)>> \o FilterRelevant(topic, Tail(items))
         ELSE FilterRelevant(topic, Tail(items))

findRelevantResearch(topic, feed) ==
    IF feed = None \/ ~Has(feed[1], "items") THEN <<>>
    ELSE SliceTo(FilterRelevant(topic, feed[1]["items"]), ResearchLimit)

-----------------------------------------------------------------------------
(* init-schedule.js: pure functions *)

\* getDateForDay(startDate, day) of the initializer
initGetDateForDay(startDate, day) ==
    LET y == startDate[1]
        m == startDate[2]
        d == startDate[3]
    IN  ToISODate(DateUTC(y, m - 1, d + (day - 1)))

-----------------------------------------------------------------------------
(* The files and the inputs *)

Procs == {"g1", "g2"}

FreshHours == 48        \* 48 * 60 * 60 * 1000 ms, in hours

Timestamp == "now"      \* new Date().toISOString(), one abstract instant

Pillar == <<"h", "-", "r">>
Keyword == <<"a", "b">>

Topic(i) ==
    [day |-> i, slug |-> <<"post", i>>, title |-> <<"title", i>>,
     pillar |-> Pillar,
     format |-> IF i % 2 = 0 THEN "deep-dive" ELSE "field-tip",
     targetKeyword |-> Keyword]

Bank(n) == [i \in 1..n |-> Topic(i)]

ManualSlug == <<"manual", 0>>

\* The days the inputs range over: none (0), the bank's days, and one day
\* past the bank.
InputDays == 0..(NumTopics + 1)

\* The days the requests to the two handlers name: an image for the first
\* topic or for a day past the bank, a note for no day or for the last topic
UploadDays == {1, NumTopics + 1}
NoteDays == {0, NumTopics}

Today == <<2026, 3, 1>>

StartDates == {Today, <<2027, 12, 31>>}

Notes == {"emphasize fall protection"}

\* A lookup that falls back to the first topic
FindTopicOrFirst(topics, day) ==
    LET idx == {i \in 1..Len(topics) : topics[i]["day"] = day}
    IN  IF idx = {} THEN Some(topics[1])
        ELSE Some(topics[CHOOSE i \in idx : \A j \in idx : i <= j])

\* topics.find(t => t.day === day): the first topic with that day
FindTopic(topics, day) ==
    LET idx == {i \in 1..Len(topics) : topics[i]["day"] = day}
    IN  IF idx = {} THEN None
        ELSE Some(topics[CHOOSE i \in idx : \A j \in idx : i <= j])

\* topics.find(t => t.slug === slug)
FindTopicBySlug(topics, slug) ==
    LET idx == {i \in 1..Len(topics) : topics[i]["slug"] = slug}
    IN  IF idx = {} THEN None
        ELSE Some(topics[CHOOSE i \in idx : \A j \in idx : i <= j])

\* The record the generator stores for a published day
GeneratedFields(topic, publishDate, hadResearch, hadNote) ==
    [slug |-> topic["slug"], title |-> topic["title"], date |-> publishDate,
     pillar |-> topic["pillar"], format |-> topic["format"],
     status |-> "published", generatedAt |-> Timestamp,
     hadResearchIntegration |-> hadResearch, hadEditorialNote |-> hadNote]

\* A backfill that stamps the entry with the time of the run
BackfillFieldsStamped(topic, startDate) ==
    [slug |-> topic["slug"], title |-> topic["title"],
     date |-> initGetDateForDay(startDate, topic["day"]),
     pillar |-> topic["pillar"], format |-> topic["format"],
     status |-> "published", generatedAt |-> Timestamp]

\* The record the initializer stores for a content file found on disk
BackfillFields(topic, startDate) ==
    [slug |-> topic["slug"], title |-> topic["title"],
     date |-> initGetDateForDay(startDate, topic["day"]),
     pillar |-> topic["pillar"], format |-> topic["format"],
     status |-> "published", generatedAt |-> "pre-existing"]

\* The research feed files of the system runs
RelevantItem ==
    [title |-> <<"x">>, summary |-> <<"y">>, relevancePillars |-> <<Pillar>>,
     relevanceScore |-> JsNum(80)]

FeedFile(generatedAt, items) ==
    Some([parses |-> TRUE,
          value |-> [generatedAt |-> generatedAt, items |-> items]])

GarbageFeedFile == Some([parses |-> FALSE])

SysFeedFiles == {None, FeedFile(JsNum(0), <<RelevantItem>>), GarbageFeedFile}

SysClock == {FreshHours, FreshHours + 1}

\* A string that is not a date (generatedAt: "soon")
JsText == [t |-> "string"]

\* new Date(x).getTime(), in hours: JsNum(h) stands for a date string of the
\* instant h, null converts to the epoch, undefined and a string that is not
\* a date give NaN (None)
DateTime(x) ==
    CASE x["t"] = "number" -> Some(x["v"])
      [] x["t"] = "null" -> Some(0)
      [] OTHER -> None

\* A staleness test that also rejects a feed exactly 48 hours old
IsStaleAtLimit(feedAge) == feedAge # None /\ feedAge[1] >= FreshHours

\* feedAge > 48 * 60 * 60 * 1000 (line 132); false for NaN
IsStale(feedAge) == feedAge # None /\ feedAge[1] > FreshHours

\* loadResearchFeed: threw is JSON.parse failing; feed is None for null
loadResearchFeed(file, now) ==
    IF file = None THEN [threw |-> FALSE, feed |-> None]
    ELSE IF ~file[1]["parses"] THEN [threw |-> TRUE, feed |-> None]
    ELSE LET feed == file[1]["value"]
             at == DateTime(IF Has(feed, "generatedAt") THEN feed["generatedAt"]
                            ELSE JsUndefined)
             feedAge == IF at = None THEN None ELSE Some(now - at[1])
         IN  [threw |-> FALSE,
              feed |-> IF IsStale(feedAge) THEN None ELSE Some(feed)]

-----------------------------------------------------------------------------
(* The state of a generator run *)

IdleLocal ==
    [preview |-> FALSE, specificDay |-> None, schedule |-> None,
     targetDay |-> 0, topic |-> None, publishDate |-> None,
     matched |-> FALSE, research |-> <<>>, editorialNote |-> None]

Posts(file) ==
    IF file # None /\ Has(file[1], "posts") THEN file[1]["posts"] ELSE <<>>

\* A topic's content file exists iff its day is published
Reconciled ==
    topicBank # None =>
        \A i \in 1..Len(topicBank[1]) :
            (topicBank[1][i]["slug"] \in blog)
                <=> Published(Posts(schedFile), topicBank[1][i]["day"])

InFlight(p) == pc[p] # "idle"

\* specificDay || ...: the --day argument is given and is not 0
Truthy(optDay) == optDay # None /\ optDay[1] # 0

\* outcome, effects and taint describe the run in flight or the run that the
\* last step ended; the next step forgets those of an ended run.  `actor`
\* is the process or handler that takes the step.  An ended run's outcome
\* names how it ended, the day it targeted (0 for none), whether the day
\* was given with --day and whether the run had matched the research feed
\* against its topic (lines 303-304).
NoOutcome == [how |-> "none"]

Ended(how, day, explicit, matched) ==
    [how |-> how, day |-> day, explicit |-> explicit, matched |-> matched]

\* The exit code of the process: 0 for the exits at lines 270, 290, 299 and
\* the end of main, 1 for the others and the signal's code for a kill
ExitCode(how) ==
    CASE how \in {"done", "skip", "preview", "complete"} -> 0
      [] how = "killed" -> 137
      [] OTHER -> 1

Outcomes(actor, result) ==
    [q \in Procs |-> IF q = actor THEN result ELSE NoOutcome]

Effects(actor, own) ==
    [q \in Procs |->
        IF q = actor THEN own ELSE IF InFlight(q) THEN effects[q] ELSE <<>>]

Taints(actor, own, tag) ==
    [q \in Procs |->
        IF q = actor THEN own
        ELSE IF InFlight(q) THEN taint[q] \cup {tag} ELSE {}]

\* The run of p has had side effect e
Did(p, e) == \E i \in 1..Len(effects[p]) : effects[p][i] = e

\* The run of p goes on to position `to`
Goto(p, to) ==
    /\ pc' = [pc EXCEPT ![p] = to]
    /\ outcome' = Outcomes(p, NoOutcome)

\* The run of p ends: exit of the process
ExitWith(p, how, day, explicit, matched) ==
    /\ pc' = [pc EXCEPT ![p] = "idle"]
    /\ local' = [local EXCEPT ![p] = IdleLocal]
    /\ outcome' = Outcomes(p, Ended(how, day, explicit, matched))

Exit(p, how) ==
    ExitWith(p, how, local[p]["targetDay"], Truthy(local[p]["specificDay"]),
             local[p]["matched"])

\* An order that writes the content file before it calls the oracle
AfterFileFirst(at) ==
    CASE at = "check" -> "write"
      [] at = "write" -> "oracle"
      [] at = "oracle" -> "save"
      [] OTHER -> "end"

\* An order that saves the schedule before it writes the content file
AfterSaveFirst(at) ==
    CASE at = "check" -> "oracle"
      [] at = "oracle" -> "save"
      [] at = "save" -> "write"
      [] OTHER -> "end"

\* The order of the statements of main after the checks: the oracle call
\* (line 330), the content file (line 339), the schedule (line 357), the end
After(at) ==
    CASE at = "check" -> "oracle"
      [] at = "oracle" -> "write"
      [] at = "write" -> "save"
      [] OTHER -> "end"

\* The run of p goes on to the statement after `at`, or ends successfully
Advance(p, at) ==
    IF After(at) = "end"
    THEN Exit(p, "done")
    ELSE /\ Goto(p, After(at))
         /\ UNCHANGED local

-----------------------------------------------------------------------------
(* daily-generate.js: main, one action per file-system or oracle step *)

\* An existence check that never finds the file
FileExistsNever(slug) == FALSE

\* fs.existsSync(outFile), line 289
FileExists(slug) == slug \in blog

\* A lookup that takes the note of the lowest day that has one
NoteOfAnyDay(schedule, day) ==
    LET posts == IF Has(schedule, "posts") THEN schedule["posts"] ELSE <<>>
        noted == {d \in DOMAIN posts : /\ Has(posts[d], "editorialNote")
                                       /\ posts[d]["editorialNote"] # ""}
    IN  IF noted = {} THEN None
        ELSE Some(posts[CHOOSE d \in noted : \A e \in noted : d <= e]
                       ["editorialNote"])

\* schedule.posts?.[targetDay]?.editorialNote || null
NoteOf(schedule, day) ==
    LET posts == IF Has(schedule, "posts") THEN schedule["posts"] ELSE <<>>
    IN  IF /\ day \in DOMAIN posts
           /\ Has(posts[day], "editorialNote")
           /\ posts[day]["editorialNote"] # ""
        THEN Some(posts[day]["editorialNote"])
        ELSE None

\* The local variables of main once the day and its topic are known (lines
\* 258-285): publishDate is getDateForDay(schedule, targetDay)
Loaded(preview, specificDay, schedule, targetDay, topic) ==
    [preview |-> preview, specificDay |-> specificDay,
     schedule |-> Some(schedule), targetDay |-> targetDay, topic |-> topic,
     publishDate |-> Some(getDateForDay(schedule, targetDay)),
     matched |-> FALSE, research |-> <<>>, editorialNote |-> None]

\* A choice of day that asks the selector first
TargetDaySelectorFirst(specificDay, schedule) ==
    IF getNextScheduledDay(schedule) # 0 THEN getNextScheduledDay(schedule)
    ELSE IF specificDay # None THEN specificDay[1]
    ELSE 0

\* SPECIFIC_DAY || getNextScheduledDay(schedule), line 265
TargetDay(specificDay, schedule) ==
    IF Truthy(specificDay) THEN specificDay[1]
    ELSE getNextScheduledDay(schedule)

\* Lines 247-285: load the Topic Bank and the schedule, pick the day and
\* its topic.
GenLoad(p, preview, specificDay, today) ==
    /\ pc[p] = "idle"
    /\ effects' = Effects(p, <<>>)
    /\ taint' = Taints(p, (IF Reconciled THEN {} ELSE {"unreconciled"})
                          \cup (IF \E q \in Procs \ {p} : InFlight(q)
                                THEN {"overlap"} ELSE {}),
                       "overlap")
    /\ IF topicBank = None
       THEN ExitWith(p, "no-bank", 0, Truthy(specificDay), FALSE)
       ELSE LET topics == topicBank[1]
                schedule == IF schedFile # None THEN schedFile[1]
                            ELSE [startDate |-> today, posts |-> <<>>]
                targetDay == TargetDay(specificDay, schedule)
                topic == FindTopic(topics, targetDay)
            IN  IF targetDay = 0
                THEN ExitWith(p, "complete", 0, Truthy(specificDay), FALSE)
                ELSE IF topic = None
                THEN ExitWith(p, "no-topic", targetDay, Truthy(specificDay),
                              FALSE)
                ELSE /\ Goto(p, "check")
                     /\ local' = [local EXCEPT ![p] =
                           Loaded(preview, specificDay, schedule, targetDay,
                                  topic)]
    /\ UNCHANGED <<topicBank, schedFile, blog, stuck, call>>

\* Lines 287-328: the existence check (289), preview mode (294-300), the
\* research feed loaded and matched (303-304), the editorial note (316) and
\* the API key (322), in that order.
GenCheck(p, feedFile, now, apiKey) ==
    /\ pc[p] = "check"
    /\ LET topic == local[p]["topic"][1]
           loaded == loadResearchFeed(feedFile, now)
       IN  IF FileExists(topic["slug"]) THEN Exit(p, "skip")
           ELSE IF local[p]["preview"] THEN Exit(p, "preview")
           ELSE IF loaded["threw"] THEN Exit(p, "fatal-feed")
           ELSE IF ~apiKey
           THEN ExitWith(p, "no-key", local[p]["targetDay"],
                         Truthy(local[p]["specificDay"]), TRUE)
           ELSE /\ Goto(p, After("check"))
                /\ local' = [local EXCEPT ![p] =
                      [@ EXCEPT !["matched"] = TRUE,
                                !["research"] =
                                    findRelevantResearch(topic, loaded["feed"]),
                                !["editorialNote"] =
                                    NoteOf(local[p]["schedule"][1],
                                           local[p]["targetDay"])]]
    /\ effects' = Effects(p, effects[p])
    /\ taint' = Taints(p, taint[p], "overlap")
    /\ UNCHANGED <<topicBank, schedFile, blog, stuck, call>>

\* An oracle step that calls again after a first rejected call
GenOracleRetry(p, ok) ==
    /\ pc[p] = "oracle"
    /\ effects' = Effects(p, Append(effects[p], "oracle"))
    /\ IF ok
       THEN Advance(p, "oracle")
       ELSE IF ~Did(p, "oracle")
       THEN Goto(p, "oracle") /\ UNCHANGED local
       ELSE Exit(p, "fatal-oracle")
    /\ taint' = Taints(p, taint[p], "overlap")
    /\ UNCHANGED <<topicBank, schedFile, blog, stuck, call>>

\* Lines 330-332: the oracle call; a rejected call is caught at line 366.
GenOracle(p, ok) ==
    /\ pc[p] = "oracle"
    /\ effects' = Effects(p, Append(effects[p], "oracle"))
    /\ IF ok
       THEN Advance(p, "oracle")
       ELSE Exit(p, "fatal-oracle")
    /\ taint' = Taints(p, taint[p], "overlap")
    /\ UNCHANGED <<topicBank, schedFile, blog, stuck, call>>

\* Lines 334-340: write the content file; a failed write is caught at 366.
GenWrite(p, ok) ==
    /\ pc[p] = "write"
    /\ IF ok
       THEN /\ blog' = blog \cup {local[p]["topic"][1]["slug"]}
            /\ effects' = Effects(p, Append(effects[p], "file"))
            /\ Advance(p, "write")
       ELSE /\ Exit(p, "fatal-write")
            /\ effects' = Effects(p, effects[p])
            /\ UNCHANGED blog
    /\ taint' = Taints(p, taint[p], "overlap")
    /\ UNCHANGED <<topicBank, schedFile, stuck, call>>

\* A save that overwrites the day's record instead of merging into it
UpdatedScheduleOverwrite(l) ==
    LET schedule == l["schedule"][1]
        posts == IF Has(schedule, "posts") THEN schedule["posts"] ELSE <<>>
        day == l["targetDay"]
        fields == GeneratedFields(l["topic"][1], l["publishDate"][1],
                                  Len(l["research"]) > 0,
                                  l["editorialNote"] # None)
    IN  ("posts" :> ((day :> fields) @@ posts)) @@ schedule

\* Lines 342-356: the schedule the run saves
UpdatedSchedule(l) ==
    LET schedule == l["schedule"][1]
        posts == IF Has(schedule, "posts") THEN schedule["posts"] ELSE <<>>
        day == l["targetDay"]
        existing == IF day \in DOMAIN posts THEN posts[day] ELSE <<>>
        fields == GeneratedFields(l["topic"][1], l["publishDate"][1],
                                  Len(l["research"]) > 0,
                                  l["editorialNote"] # None)
    IN  ("posts" :> ((day :> (fields @@ existing)) @@ posts)) @@ schedule

\* The schedule.json on disk is not the one the run of p loaded at line 261
Stale(p) == schedFile # None /\ schedFile # local[p]["schedule"]

\* A save that reads schedule.json again and merges into what it finds
GenSaveReread(p, ok) ==
    /\ pc[p] = "save"
    /\ IF ok
       THEN /\ schedFile' = Some(UpdatedSchedule(
                    IF schedFile = None THEN local[p]
                    ELSE [local[p] EXCEPT !["schedule"] = schedFile]))
            /\ effects' = Effects(p, Append(effects[p], "schedule"))
            /\ Advance(p, "save")
            /\ taint' = Taints(p, taint[p] \cup (IF Stale(p) THEN {"stale"}
                                                 ELSE {}), "overlap")
       ELSE /\ Exit(p, "fatal-save")
            /\ effects' = Effects(p, effects[p])
            /\ taint' = Taints(p, taint[p], "overlap")
            /\ UNCHANGED schedFile
    /\ UNCHANGED <<topicBank, blog, stuck, call>>

\* Lines 342-363: update and save the schedule; a failed save is caught at
\* 366.  The run writes the schedule it loaded at line 261 with its day's
\* record updated; taint "stale" marks a save over a file that another
\* writer has changed since.
GenSave(p, ok) ==
    /\ pc[p] = "save"
    /\ IF ok
       THEN /\ schedFile' = Some(UpdatedSchedule(local[p]))
            /\ effects' = Effects(p, Append(effects[p], "schedule"))
            /\ Advance(p, "save")
            /\ taint' = Taints(p, taint[p] \cup (IF Stale(p) THEN {"stale"}
                                                 ELSE {}), "overlap")
       ELSE /\ Exit(p, "fatal-save")
            /\ effects' = Effects(p, effects[p])
            /\ taint' = Taints(p, taint[p], "overlap")
            /\ UNCHANGED schedFile
    /\ UNCHANGED <<topicBank, blog, stuck, call>>

\* The process is killed mid-run; a run killed after its content file is
\* written and before its schedule is saved leaves its day in `stuck`
Kill(p) ==
    /\ InFlight(p)
    /\ Exit(p, "killed")
    /\ stuck' = IF Did(p, "file") /\ ~Did(p, "schedule")
                THEN stuck \cup {local[p]["targetDay"]}
                ELSE stuck
    /\ effects' = Effects(p, effects[p])
    /\ taint' = Taints(p, taint[p], "kill")
    /\ UNCHANGED <<topicBank, schedFile, blog, call>>

-----------------------------------------------------------------------------
(* init-schedule.js: initSchedule *)

\* Lines 106-125: existingPosts, one entry per content file whose name is a
\* topic's slug, keyed by that topic's day
ExistingPosts(topics, files, startDate) ==
    LET found == {f \in files : FindTopicBySlug(topics, f) # None}
        days == {FindTopicBySlug(topics, f)[1]["day"] : f \in found}
        fileOf(d) == CHOOSE f \in found :
                         FindTopicBySlug(topics, f)[1]["day"] = d
    IN  [d \in days |->
            BackfillFields(FindTopicBySlug(topics, fileOf(d))[1], startDate)]

\* An initializer that merges its entries into the store it finds
InitScheduleMerge(startDate) ==
    /\ IF topicBank = None
       THEN UNCHANGED schedFile
       ELSE LET new == ExistingPosts(topicBank[1], blog, startDate)
                old == Posts(schedFile)
            IN  schedFile' =
                    Some([startDate |-> startDate,
                          totalDays |-> Len(topicBank[1]),
                          posts |->
                              [d \in DOMAIN new \cup DOMAIN old |->
                                  (IF d \in DOMAIN new THEN new[d] ELSE <<>>)
                                  @@ (IF d \in DOMAIN old THEN old[d]
                                      ELSE <<>>)]])
    /\ outcome' = Outcomes("init", NoOutcome)
    /\ effects' = Effects("init", <<>>)
    /\ taint' = Taints("init", {}, "overlap")
    /\ UNCHANGED <<topicBank, blog, pc, local, stuck, call>>

InitSchedule(startDate) ==
    /\ IF topicBank = None
       THEN UNCHANGED schedFile
       ELSE schedFile' =
                Some([startDate |-> startDate,
                      totalDays |-> Len(topicBank[1]),
                      posts |-> ExistingPosts(topicBank[1], blog,
                                              startDate)])
    /\ outcome' = Outcomes("init", NoOutcome)
    /\ effects' = Effects("init", <<>>)
    /\ taint' = Taints("init", {}, "overlap")
    /\ UNCHANGED <<topicBank, blog, pc, local, stuck, call>>

-----------------------------------------------------------------------------
(* upload-image.ts: the image upload and the editorial note handlers *)

ImagePath(slug) == <<"/images/blog", slug>>

\* A handler that replaces posts[day] by the fields it sets
WithFieldsReplace(schedule, day, fields) ==
    LET posts == IF Has(schedule, "posts") THEN schedule["posts"] ELSE <<>>
    IN  ("posts" :> ((day :> fields) @@ posts)) @@ schedule

\* schedule.posts[day].<field> = value for each field of `fields`, creating
\* posts[day] when it is missing
WithFields(schedule, day, fields) ==
    LET posts == IF Has(schedule, "posts") THEN schedule["posts"] ELSE <<>>
        old == IF day \in DOMAIN posts THEN posts[day] ELSE <<>>
    IN  ("posts" :> ((day :> (fields @@ old)) @@ posts)) @@ schedule

\* POST of the image handler, lines 18-105
UploadImage(day, sharpOk) ==
    LET topic == IF topicBank = None THEN None
                 ELSE FindTopic(topicBank[1], day)
        slug == topic[1]["slug"]
    IN  /\ IF topic = None \/ ~sharpOk
           THEN UNCHANGED <<blog, schedFile>>
           ELSE /\ blog' = blog
                /\ IF schedFile = None
                   THEN UNCHANGED schedFile
                   ELSE schedFile' = Some(WithFields(schedFile[1], day,
                            [heroImage |-> ImagePath(slug),
                             imageUploadedAt |-> Timestamp]))
        /\ outcome' = Outcomes("upload", NoOutcome)
        /\ effects' = Effects("upload", <<>>)
        /\ taint' = Taints("upload", {}, "overlap")
        /\ UNCHANGED <<topicBank, pc, local, stuck, call>>

\* POST of the editorial note handler, lines 115-139
SaveNote(day, note) ==
    /\ IF day = 0 \/ schedFile = None
       THEN UNCHANGED schedFile
       ELSE schedFile' = Some(WithFields(schedFile[1], day,
                [editorialNote |-> note, noteUpdatedAt |-> Timestamp]))
    /\ outcome' = Outcomes("note", NoOutcome)
    /\ effects' = Effects("note", <<>>)
    /\ taint' = Taints("note", {}, "overlap")
    /\ UNCHANGED <<topicBank, blog, pc, local, stuck, call>>

-----------------------------------------------------------------------------
(* The system *)

NoCall == [fn |-> "none"]

DayArgs == {None} \cup {Some(d) : d \in InputDays}

\* Content files that exist before any run: posts added by hand, named
\* after a topic's slug or not
InitFiles ==
    \/ /\ topicBank = None
       /\ blog = {}
    \/ \E extra \in {{}, {Topic(1)["slug"], ManualSlug}} :
          /\ topicBank = Some(Bank(NumTopics))
          /\ blog = extra

Init ==
    /\ InitFiles
    /\ schedFile = None
    /\ pc = [p \in Procs |-> "idle"]
    /\ local = [p \in Procs |-> IdleLocal]
    /\ outcome = [p \in Procs |-> NoOutcome]
    /\ effects = [p \in Procs |-> <<>>]
    /\ taint = [p \in Procs |-> {}]
    /\ stuck = {}
    /\ call = NoCall

\* The steps of one invocation of the generator
Steps(p) ==
    \/ \E preview \in BOOLEAN, specificDay \in DayArgs :
          GenLoad(p, preview, specificDay, Today)
    \/ \E feedFile \in SysFeedFiles, now \in SysClock, apiKey \in BOOLEAN :
          GenCheck(p, feedFile, now, apiKey)
    \/ \E ok \in BOOLEAN : GenOracle(p, ok)
    \/ \E ok \in BOOLEAN : GenWrite(p, ok)
    \/ \E ok \in BOOLEAN : GenSave(p, ok)

Run(p) == Steps(p) \/ Kill(p)

Handlers ==
    \/ \E startDate \in StartDates : InitSchedule(startDate)
    \/ \E day \in UploadDays, sharpOk \in BOOLEAN :
          UploadImage(day, sharpOk)
    \/ \E day \in NoteDays, note \in Notes :
          SaveNote(day, note)

\* One generator run at a time, the handlers free to act during it
Next == Run("g1") \/ Handlers

Spec == Init /\ [][Next]_vars

\* Invocations that run to completion, one after the other: no kill, and a
\* handler or the initializer acts only while no generator run is in flight
NextSeq ==
    \/ Steps("g1")
    \/ ~InFlight("g1") /\ \E startDate \in StartDates : InitSchedule(startDate)
    \/ ~InFlight("g1") /\ \E day \in UploadDays, sharpOk \in BOOLEAN :
                              UploadImage(day, sharpOk)
    \/ ~InFlight("g1") /\ \E day \in NoteDays, note \in Notes :
                              SaveNote(day, note)

SpecSeq == Init /\ [][NextSeq]_vars

-----------------------------------------------------------------------------
(* The pure functions, applied once to an input drawn from a bounded set;  *)
(* `call` records the application and the files stay as they start.        *)

PureInit ==
    /\ Init
    /\ topicBank # None
    /\ blog = {}

Files == <<topicBank, schedFile, blog, pc, local, outcome, effects, taint,
           stuck>>

\* A Schedule Store over a bank of n topics: `kinds` gives each day an
\* absent entry, an entry without a status (a note only) or a published one
EntryOf(kind, day) ==
    IF kind = "published"
    THEN GeneratedFields(Topic(day), initGetDateForDay(Today, day),
                         FALSE, FALSE)
    ELSE [editorialNote |-> "emphasize fall protection",
          noteUpdatedAt |-> Timestamp]

StoreOf(n, kinds) ==
    [startDate |-> Today, totalDays |-> n,
     posts |-> [d \in {e \in 1..n : kinds[e] # "absent"} |->
                   EntryOf(kinds[d], d)]]

EntryKinds == {"absent", "no-status", "published"}

CallSelect(n, kinds) ==
    /\ call = NoCall
    /\ call' = [fn |-> "getNextScheduledDay", topics |-> n,
                schedule |-> StoreOf(n, kinds),
                result |-> getNextScheduledDay(StoreOf(n, kinds))]
    /\ UNCHANGED Files

NextSelect ==
    \E n \in 1..SelDays : \E kinds \in [1..n -> EntryKinds] :
        CallSelect(n, kinds)

SpecSelect == PureInit /\ [][NextSelect]_vars

\* Start dates whose 180 days cross a month end, a year end, a leap day and
\* the February of a century year that is no leap year
DateStarts ==
    {Today, <<2027, 12, 31>>, <<2028, 2, 28>>, <<2027, 9, 5>>,
     <<2099, 12, 15>>}

\* Both getDateForDay functions on one input, and the date each program
\* stores for that day: the generator's posts[day].date of a run for the
\* day, the initializer's posts[day].date for a content file of the day
CallDate(startDate, day) ==
    LET schedule == [startDate |-> startDate, posts |-> <<>>]
        topic == Topic(day)
        run == Loaded(FALSE, Some(day), schedule, day, Some(topic))
    IN  /\ call = NoCall
        /\ call' = [fn |-> "getDateForDay", startDate |-> startDate,
                    day |-> day,
                    generator |-> getDateForDay(schedule, day),
                    initializer |-> initGetDateForDay(startDate, day),
                    generated |-> UpdatedSchedule(run)["posts"][day]["date"],
                    backfilled |->
                        ExistingPosts(<<topic>>, {topic["slug"]},
                                      startDate)[day]["date"]]
        /\ UNCHANGED Files

NextDate ==
    \E startDate \in DateStarts, day \in 1..LastDay : CallDate(startDate, day)

SpecDate == PureInit /\ [][NextDate]_vars

\* Feed items: a relevanceScore that is missing, a number below or at the
\* threshold, or null; pillars that match the topic's or not
ScoreKinds == {JsUndefined, JsNum(ScoreThreshold - 1), JsNum(ScoreThreshold),
               JsNull}

OtherPillar == <<"c">>

Item(score, pillar) ==
    LET base == [title |-> <<"x">>, summary |-> <<"y">>,
                 relevancePillars |-> <<pillar>>]
    IN  IF score = JsUndefined THEN base
        ELSE ("relevanceScore" :> score) @@ base

Items == {Item(score, pillar) : score \in ScoreKinds,
                                pillar \in {Pillar, OtherPillar}}

RECURSIVE SeqsUpTo(_, _)
SeqsUpTo(S, n) ==
    IF n = 0 THEN {<<>>}
    ELSE LET shorter == SeqsUpTo(S, n - 1)
         IN  shorter \cup {Append(q, x) : q \in shorter, x \in S}

CallMatch(items) ==
    LET feed == Some([generatedAt |-> JsNum(0), items |-> items])
    IN  /\ call = NoCall
        /\ call' = [fn |-> "findRelevantResearch", items |-> items,
                    result |-> findRelevantResearch(Topic(1), feed)]
        /\ UNCHANGED Files

NextMatch == \E items \in SeqsUpTo(Items, MaxItems) : CallMatch(items)

SpecMatch == PureInit /\ [][NextMatch]_vars

-----------------------------------------------------------------------------
(* loadResearchFeed and the matcher, applied to one feed file at one time *)

ClockSpan == 2

\* research-feed.json with a generatedAt that is a date (at hour 0 or 1),
\* missing, not a date or null, and with items missing, empty, relevant
\* to the topic or not
FeedAts == {JsNum(0), JsNum(1), JsUndefined, JsText, JsNull}

FeedItems == {None, Some(<<>>), Some(<<RelevantItem>>),
              Some(<<Item(JsNum(ScoreThreshold - 1), Pillar)>>)}

FeedOf(at, optItems) ==
    Some([parses |-> TRUE,
          value |-> (IF at = JsUndefined THEN <<>> ELSE ("generatedAt" :> at))
                    @@ (IF optItems = None THEN <<>>
                        ELSE ("items" :> optItems[1]))])

FeedFiles == {None, GarbageFeedFile}
                 \cup {FeedOf(at, optItems) : at \in FeedAts,
                                              optItems \in FeedItems}

\* Date.now(), in hours: around 48 hours after hours 0 and 1
FeedClock == (FreshHours - ClockSpan)..(FreshHours + ClockSpan + 1)

\* Lines 303-304 and 352-353 of main for the first topic: the feed is
\* loaded and matched, and the record the run saves says whether research
\* was integrated; a throw of JSON.parse ends the run at line 366
CallFeed(file, now) ==
    LET topic == Topic(1)
        loaded == loadResearchFeed(file, now)
        research == findRelevantResearch(topic, loaded["feed"])
        run == [Loaded(FALSE, None, [startDate |-> Today, posts |-> <<>>], 1,
                       Some(topic)) EXCEPT !["research"] = research]
    IN  /\ call = NoCall
        /\ call' = [fn |-> "loadResearchFeed", file |-> file, now |-> now,
                    threw |-> loaded["threw"],
                    research |-> IF loaded["threw"] THEN <<>> ELSE research,
                    saved |-> IF loaded["threw"] THEN None
                              ELSE Some(UpdatedSchedule(run)["posts"][1])]
        /\ UNCHANGED Files

NextFeed == \E file \in FeedFiles, now \in FeedClock : CallFeed(file, now)

SpecFeed == PureInit /\ [][NextFeed]_vars

-----------------------------------------------------------------------------
(* generatePost: the request assembled for a day, with and without a note  *)
(* on some day of the Schedule Store                                       *)

BriefDays == 3

BriefNotes == {"emphasize fall protection", "cite the OSHA rule"}

OwnNote == "keep it short"

Line(label, text) == [label |-> label, text |-> text]

\* Lines 166-193: the brief as the sequence of its lines.  The lines from
\* Psychological Concept to Tone are fields of the topic alone and stand
\* as one line.
Brief(topic, researchItems, editorialNote) ==
    <<Line("Write a blog post based on this brief:", <<>>),
      Line("Title:", topic["title"]),
      Line("Format:", <<topic["format"]>>),
      Line("Target Keyword:", topic["targetKeyword"]),
      Line("Psychological Concept: ... Tone:", <<topic["day"]>>)>>
    \o (IF editorialNote # None
        THEN <<Line("EDITORIAL GUIDANCE FROM THE EDITOR", <<editorialNote[1]>>)>>
        ELSE <<>>)
    \o (IF Len(researchItems) > 0
        THEN <<Line("RECENT RELEVANT NEWS", <<>>)>>
             \o [i \in 1..Len(researchItems) |->
                    Line("item", <<i, researchItems[i]["title"],
                                   researchItems[i]["summary"]>>)]
        ELSE <<>>)
    \o <<Line("Write the post now.", <<>>)>>

\* Lines 272, 316 and 330 of main: the request a run for `day` sends
Request(schedule, day, research) ==
    Brief(FindTopic(Bank(BriefDays), day)[1], research, NoteOf(schedule, day))

\* A store without notes: each day absent or published
BriefStore(published) ==
    [startDate |-> Today, totalDays |-> BriefDays,
     posts |-> [d \in published |-> EntryOf("published", d)]]

\* What the note handler stores (upload-image.ts lines 126-131)
Noted(schedule, day, note) ==
    WithFields(schedule, day,
               [editorialNote |-> note, noteUpdatedAt |-> Timestamp])

CallBrief(published, noteDay, note, target, own, research) ==
    LET base == IF own THEN Noted(BriefStore(published), target, OwnNote)
                ELSE BriefStore(published)
    IN  /\ call = NoCall
        /\ call' = [fn |-> "generatePost", noteDay |-> noteDay,
                    note |-> note, target |-> target,
                    schedule |-> Noted(base, noteDay, note),
                    with |-> Request(Noted(base, noteDay, note), target,
                                     research),
                    without |-> Request(base, target, research)]
        /\ UNCHANGED Files

NextBrief ==
    \E published \in SUBSET (1..BriefDays), noteDay \in 1..BriefDays,
       note \in BriefNotes, target \in 1..BriefDays, own \in BOOLEAN,
       research \in {<<>>, <<RelevantItem>>} :
        CallBrief(published, noteDay, note, target, own, research)

SpecBrief == PureInit /\ [][NextBrief]_vars

-----------------------------------------------------------------------------
(* The day a run targets, for a --day argument and a Schedule Store *)

\* Lines 265 and 272 of main for a bank of n topics
CallTarget(n, kinds, specificDay) ==
    LET targetDay == TargetDay(specificDay, StoreOf(n, kinds))
    IN  /\ call = NoCall
        /\ call' = [fn |-> "targetDay", topics |-> n,
                    schedule |-> StoreOf(n, kinds),
                    specificDay |-> specificDay,
                    result |-> targetDay,
                    topic |-> FindTopic(Bank(n), targetDay)]
        /\ UNCHANGED Files

NextTarget ==
    \E n \in 1..SelDays : \E kinds \in [1..n -> EntryKinds] :
        \E specificDay \in {None} \cup {Some(d) : d \in 0..(n + 1)} :
            CallTarget(n, kinds, specificDay)

SpecTarget == PureInit /\ [][NextTarget]_vars

-----------------------------------------------------------------------------
(* Two generator runs and the two handlers, free to overlap: runs that are *)
(* not previews, find no research feed and meet no failure and no kill     *)

StepsOk(p) ==
    \/ \E specificDay \in DayArgs : GenLoad(p, FALSE, specificDay, Today)
    \/ GenCheck(p, None, FreshHours, TRUE)
    \/ GenOracle(p, TRUE)
    \/ GenWrite(p, TRUE)
    \/ GenSave(p, TRUE)

NextOverlap ==
    \/ StepsOk("g1")
    \/ StepsOk("g2")
    \/ \E day \in UploadDays, sharpOk \in BOOLEAN : UploadImage(day, sharpOk)
    \/ \E day \in NoteDays, note \in Notes : SaveNote(day, note)

SpecOverlap == Init /\ [][NextOverlap]_vars

-----------------------------------------------------------------------------
(* combine-topics.js *)

CombineDays == 3

NumBatches == 3

\* A sort that leaves the topics in the order they were loaded
SortByDayNone(topics) == topics

\* allTopics.sort((a, b) => a.day - b.day): Array.prototype.sort is stable;
\* a topic goes behind every topic whose day is not greater
RECURSIVE SortByDay(_)
SortByDay(topics) ==
    IF Len(topics) <= 1 THEN topics
    ELSE LET n == Len(topics)
             x == topics[n]
             sorted == SortByDay(SubSeq(topics, 1, n - 1))
             k == Cardinality({i \in 1..(n - 1) : sorted[i]["day"] <= x["day"]})
         IN  SubSeq(sorted, 1, k) \o <<x>> \o SubSeq(sorted, k + 1, n - 1)

\* A batch file: missing, not JSON, JSON that is not an array, or an array
\* of topics
BatchKinds == {"missing", "garbage", "object", "array"}

BatchFile(kind, topics) ==
    CASE kind = "missing" -> None
      [] kind = "garbage" -> Some([parses |-> FALSE])
      [] kind = "object" -> Some([parses |-> TRUE, isArray |-> FALSE])
      [] OTHER -> Some([parses |-> TRUE, isArray |-> TRUE, data |-> topics])

\* Lines 31-50 for one file: what it adds to allTopics and what it logs
Loaded1(file) ==
    IF file = None THEN [topics |-> <<>>, log |-> "MISSING"]
    ELSE IF ~file[1]["parses"] THEN [topics |-> <<>>, log |-> "ERROR"]
    ELSE IF ~file[1]["isArray"] THEN [topics |-> <<>>, log |-> "ERROR"]
    ELSE [topics |-> file[1]["data"], log |-> "Loaded"]

\* A loop that stops at the first file that does not hold an array
RECURSIVE LoadAllUntilError(_, _)
LoadAllUntilError(files, i) ==
    IF i = 0 THEN <<>>
    ELSE IF \E j \in 1..i : Loaded1(files[j])["log"] = "ERROR"
             THEN LoadAllUntilError(files, i - 1)
             ELSE LoadAllUntilError(files, i - 1) \o Loaded1(files[i])["topics"]

RECURSIVE LoadAll(_, _)
LoadAll(files, i) ==
    IF i = 0 THEN <<>> ELSE LoadAll(files, i - 1) \o Loaded1(files[i])["topics"]

\* values.filter((v, i) => values.indexOf(v) !== i) is not empty (lines
\* 60-61, 67-68): some value has an earlier occurrence
HasDupes(topics, field) ==
    \E i, j \in 1..Len(topics) : i < j /\ topics[i][field] = topics[j][field]

\* Lines 28-74: the log and the array written to topic-bank.json
Combine(files) ==
    LET log == [i \in 1..Len(files) |-> Loaded1(files[i])["log"]]
        missing == {i \in 1..Len(files) : files[i] = None}
        allTopics == SortByDay(LoadAll(files, Len(files)))
    IN  [log |-> log
                 \o (IF missing # {} THEN <<"WARNING">> ELSE <<>>)
                 \o (IF HasDupes(allTopics, "day")
                         THEN <<"WARNING: Duplicate days">> ELSE <<>>)
                 \o (IF HasDupes(allTopics, "slug")
                         THEN <<"WARNING: Duplicate slugs">> ELSE <<>>),
         written |-> allTopics]

\* The topics a batch holds: those of the days given to it, in ascending or
\* descending order
RECURSIVE Ascending(_)
Ascending(days) ==
    IF days = {} THEN <<>>
    ELSE LET top == CHOOSE d \in days : \A e \in days : e <= d
         IN  Append(Ascending(days \ {top}), Topic(top))

Reversed(s) == [i \in 1..Len(s) |-> s[Len(s) + 1 - i]]

BatchOf(batch, kinds, descending) ==
    [i \in 1..NumBatches |->
        LET topics == Ascending({d \in 1..CombineDays : batch[d] = i})
        IN  BatchFile(kinds[i], IF descending THEN Reversed(topics)
                                ELSE topics)]

\* One run of the script: topic-bank.json is written
CombineTopics(files) ==
    /\ call = NoCall
    /\ call' = [fn |-> "combine-topics", files |-> files,
                log |-> Combine(files)["log"]]
    /\ topicBank' = Some(Combine(files)["written"])
    /\ UNCHANGED <<schedFile, blog, pc, local, outcome, effects, taint, stuck>>

NextCombine ==
    \E batch \in [1..CombineDays -> 0..NumBatches],
       kinds \in [1..NumBatches -> BatchKinds], descending \in BOOLEAN :
        CombineTopics(BatchOf(batch, kinds, descending))

SpecCombine == PureInit /\ [][NextCombine]_vars

\* Batches that overlap: a topic of day 1 under another title, and a topic
\* of day 3 under the slug of day 1
Retitled == [Topic(1) EXCEPT !["title"] = <<"other", 1>>]

SlugTwin == [Topic(3) EXCEPT !["slug"] = Topic(1)["slug"]]

OverlappingBatches ==
    {<<>>, <<Topic(1)>>, <<Topic(2), Topic(1)>>, <<Retitled, Topic(2)>>,
     <<SlugTwin>>}

NextMerge ==
    \E kinds \in [1..NumBatches -> BatchKinds \ {"missing"}],
       topics \in [1..NumBatches -> OverlappingBatches] :
        CombineTopics([i \in 1..NumBatches |-> BatchFile(kinds[i], topics[i])])

SpecMerge == PureInit /\ [][NextMerge]_vars

-----------------------------------------------------------------------------
(* generate.js, the first generator: invocations one after the other;     *)
(* `call` holds the state of the invocation in flight or of the last one   *)

NumLegacy == 2

MaxRuns == 2

\* topics.json
LegacyTopics == Bank(NumLegacy)

\* process.argv[2]: --all, a topic's slug, a slug of no topic, or nothing
LegacyArgs ==
    {[kind |-> "--all"], [kind |-> "none"], [kind |-> "slug", slug |-> ManualSlug]}
        \cup {[kind |-> "slug", slug |-> Topic(i)["slug"]] : i \in 1..NumLegacy}

\* An existence check that never finds the file
LegacyFileExistsNever(slug) == FALSE

\* fs.existsSync(outFile), line 116
LegacyFileExists(slug) == slug \in blog

\* The invocations so far, none in flight (at = 0); completeAt is the first
\* --all invocation that ran to its end (0 for none), over says that a write
\* replaced an existing file, made counts the files written
LegacyRuns ==
    IF call = NoCall
    THEN [fn |-> "generate.js", run |-> 0, all |-> FALSE, at |-> 0,
          waiting |-> FALSE, calls |-> <<>>, wrote |-> <<>>,
          ended |-> "none", over |-> FALSE, made |-> 0, completeAt |-> 0]
    ELSE call

\* The loop of line 91 goes on to the next topic, or main ends
LegacyNext(r) ==
    IF r["all"] /\ r["at"] < Len(LegacyTopics)
    THEN [r EXCEPT !["at"] = @ + 1, !["waiting"] = FALSE]
    ELSE [r EXCEPT !["at"] = 0, !["waiting"] = FALSE, !["ended"] = "ok",
                   !["completeAt"] = IF r["all"] /\ @ = 0 THEN r["run"]
                                     ELSE @]

\* Lines 81-111: main up to the first generateOne
LegacyStart(arg) ==
    LET r == [LegacyRuns EXCEPT !["run"] = @ + 1, !["calls"] = <<>>,
                                !["wrote"] = <<>>, !["all"] = (arg["kind"] = "--all"),
                                !["ended"] = "none"]
        idx == {i \in 1..Len(LegacyTopics) :
                    /\ arg["kind"] = "slug"
                    /\ LegacyTopics[i]["slug"] = arg["slug"]}
    IN  /\ call["fn"] \in {"none", "generate.js"}
        /\ LegacyRuns["at"] = 0
        /\ LegacyRuns["run"] < MaxRuns
        /\ call' = IF arg["kind"] = "--all"
                   THEN [r EXCEPT !["at"] = 1]
                   ELSE IF arg["kind"] = "none" THEN [r EXCEPT !["ended"] = "usage"]
                   ELSE IF idx = {} THEN [r EXCEPT !["ended"] = "not-found"]
                   ELSE [r EXCEPT !["at"] =
                             CHOOSE i \in idx : \A j \in idx : i <= j]
        /\ UNCHANGED Files

\* Lines 113-121: generateOne up to the oracle call
LegacyCheck ==
    /\ call["fn"] = "generate.js"
    /\ call["at"] > 0
    /\ ~call["waiting"]
    /\ call' = IF LegacyFileExists(LegacyTopics[call["at"]]["slug"])
               THEN LegacyNext(call)
               ELSE [call EXCEPT !["waiting"] = TRUE]
    /\ UNCHANGED Files

\* Lines 122-127: the oracle call and the write; a rejected call or a
\* failed write rejects main (line 130) and the invocation ends
LegacyGenerate(result) ==
    LET slug == LegacyTopics[call["at"]]["slug"]
        called == [call EXCEPT !["calls"] = Append(@, slug)]
    IN  /\ call["fn"] = "generate.js"
        /\ call["at"] > 0
        /\ call["waiting"]
        /\ IF result = "ok"
           THEN /\ blog' = blog \cup {slug}
                /\ call' = LegacyNext(
                      [called EXCEPT !["wrote"] = Append(@, slug),
                                     !["over"] = @ \/ slug \in blog,
                                     !["made"] = @ + 1])
           ELSE /\ UNCHANGED blog
                /\ call' = [called EXCEPT !["at"] = 0, !["waiting"] = FALSE,
                                          !["ended"] = "failed"]
        /\ UNCHANGED <<topicBank, schedFile, pc, local, outcome, effects,
                       taint, stuck>>

LegacyInit ==
    /\ topicBank = Some(Bank(NumTopics))
    /\ blog \in SUBSET {Topic(i)["slug"] : i \in 1..NumLegacy}
    /\ schedFile = None
    /\ pc = [p \in Procs |-> "idle"]
    /\ local = [p \in Procs |-> IdleLocal]
    /\ outcome = [p \in Procs |-> NoOutcome]
    /\ effects = [p \in Procs |-> <<>>]
    /\ taint = [p \in Procs |-> {}]
    /\ stuck = {}
    /\ call = NoCall

NextLegacy ==
    \/ \E arg \in LegacyArgs : LegacyStart(arg)
    \/ LegacyCheck
    \/ \E result \in {"ok", "oracle-fails", "write-fails"} :
          LegacyGenerate(result)

SpecLegacy == LegacyInit /\ [][NextLegacy]_vars

-----------------------------------------------------------------------------
(* buildFrontmatter *)

FrontDays == 6

\* readTimes, lines 207-214
ReadTimes ==
    [f \in {"deep-dive", "field-tip", "myth-buster", "incident-analysis",
            "research-spotlight", "leadership-brief"} |->
        CASE f = "deep-dive" -> "6 min"
          [] f = "field-tip" -> "3 min"
          [] f = "incident-analysis" -> "5 min"
          [] OTHER -> "4 min"]

\* Properties every object literal inherits from Object.prototype, with
\* the text a template literal gives for their values
InheritedProperties ==
    [k \in {"constructor", "toString"} |->
        IF k = "constructor" THEN "function Object() { [native code] }"
        ELSE "function toString() { [native code] }"]

\* obj[key] for an object literal: an own property, else an inherited one,
\* else undefined (None); an undefined key reads the property "undefined"
GetProperty(obj, key) ==
    IF key = None THEN None
    ELSE IF key[1] \in DOMAIN obj THEN Some(obj[key[1]])
    ELSE IF key[1] \in DOMAIN InheritedProperties
    THEN Some(InheritedProperties[key[1]])
    ELSE None

\* topic.format, undefined (None) when the topic has none
FormatOf(topic) == IF Has(topic, "format") THEN Some(topic["format"]) ELSE None

\* Lines 205-241: the front matter as a record of its lines.  The
\* description, tags and seoKeywords lines are built from
\* psychologicalConcept, pillar, format and targetKeyword and are left out.
buildFrontmatter(topic, publishDate) ==
    LET found == GetProperty(ReadTimes, FormatOf(topic))
    IN  [title |-> topic["title"],
         date |-> publishDate,
         readTime |-> IF found # None THEN found[1] ELSE "5 min",
         featured |-> FormatOf(topic) = Some("deep-dive"),
         pillar |-> topic["pillar"],
         format |-> FormatOf(topic)]

\* The formats of the topics: the six of the table, one that is not in it,
\* two that name inherited properties, and none
Formats ==
    {Some(f) : f \in DOMAIN ReadTimes \cup {"listicle"}
                       \cup DOMAIN InheritedProperties} \cup {None}

TopicWithFormat(day, format) ==
    LET topic == Topic(day)
    IN  IF format = None
        THEN [f \in DOMAIN topic \ {"format"} |-> topic[f]]
        ELSE [topic EXCEPT !["format"] = format[1]]

CallFront(day, format, startDate) ==
    LET topic == TopicWithFormat(day, format)
        publishDate == getDateForDay([startDate |-> startDate], day)
    IN  /\ call = NoCall
        /\ call' = [fn |-> "buildFrontmatter", topic |-> topic,
                    format |-> format, publishDate |-> publishDate,
                    result |-> buildFrontmatter(topic, publishDate)]
        /\ UNCHANGED Files

NextFront ==
    \E day \in 1..FrontDays, format \in Formats, startDate \in StartDates :
        CallFront(day, format, startDate)

SpecFront == PureInit /\ [][NextFront]_vars

-----------------------------------------------------------------------------
(* findRelevantResearch over items that all carry a numeric score, for      *)
(* keywords of one or two tokens, in lower and in upper case                *)

RelItem(score, pillar, title, summary) ==
    LET base == [title |-> title, relevancePillars |-> <<pillar>>,
                 relevanceScore |-> JsNum(score)]
    IN  IF summary = None THEN base ELSE ("summary" :> summary[1]) @@ base

\* A tag that contains the first segment of the topic's pillar
SegmentPillar == <<"h", "x">>

RelItems ==
    {RelItem(ScoreThreshold, Pillar, <<"x">>, None),
     RelItem(ScoreThreshold - 1, Pillar, <<"x">>, None),
     RelItem(ScoreThreshold, OtherPillar, <<"A", "B">>, None),
     RelItem(ScoreThreshold, OtherPillar, <<"x">>, Some(<<"y", "a", "b">>)),
     RelItem(ScoreThreshold, SegmentPillar, <<"x">>, Some(<<"y">>)),
     RelItem(ScoreThreshold, OtherPillar, <<"x">>, Some(<<"y">>))}

\* topic.targetKeyword: "ab", "Ab", "c ab" and "c  b" (two spaces)
RelKeywords ==
    {<<"a", "b">>, <<"A", "b">>, <<"c", " ", "a", "b">>,
     <<"c", " ", " ", "b">>}

CallRelevant(keyword, items) ==
    LET topic == [Topic(1) EXCEPT !["targetKeyword"] = keyword]
        feed == Some([generatedAt |-> JsNum(0), items |-> items])
    IN  /\ call = NoCall
        /\ call' = [fn |-> "findRelevantResearch", topic |-> topic,
                    items |-> items,
                    result |-> findRelevantResearch(topic, feed)]
        /\ UNCHANGED Files

NextRelevant ==
    \E keyword \in RelKeywords, items \in SeqsUpTo(RelItems, MaxItems) :
        CallRelevant(keyword, items)

SpecRelevant == PureInit /\ [][NextRelevant]_vars

-----------------------------------------------------------------------------
(* research-agent.js: analyzeArticles and writeOutput, applied to a list    *)
(* of raw items under every pattern of replies of the oracle                *)

NumRaw == 31

MaxItemsForAnalysis == 30

BatchSize == 5

SummaryLength == 200

HighRelevance == 70     \* relevanceScore 0.7, scores in hundredths

RelevancePillars == {Pillar, OtherPillar}

\* The i-th raw item: titles and urls are distinct after deduplication;
\* every other item has an empty description; publishedDate is a day number
\* standing for its ISO date, which compares as the day does
RawItem(i) ==
    [source |-> "feed", title |-> i, url |-> i, publishedDate |-> i % 3,
     rawDescription |-> IF i % 2 = 0 THEN <<>> ELSE <<"r", "a", "w">>]

RawItems(n) == [i \in 1..n |-> RawItem(i)]

\* a || b for strings: the empty string is falsy
OrElse(a, b) == IF a # <<>> THEN a ELSE b

\* Math.round(x * 100) / 100 for a score x >= 0 given in thousandths; the
\* result is in hundredths
RoundScore(x) == (x + 5) \div 10

\* The entries of the array the oracle's JSON holds. A good entry names a
\* pillar of the list and one that is not, and a score of 0.875; an odd
\* entry carries fields of the wrong types and no summary
GoodAnalysis ==
    [summary |-> <<"s">>, relevancePillars |-> Some(<<Pillar, <<"z">>>>),
     relevanceScore |-> JsNum(875), potentialAngles |-> Some(<<"angle">>)]

OddAnalysis ==
    [relevancePillars |-> None, relevanceScore |-> JsText,
     potentialAngles |-> None]

\* What the oracle does with one batch: the call throws, the text holds no
\* JSON array, or it holds an array
ReplyKinds == {"throw", "text", "array"}

\* extractJsonArray(text): None for null; an array has entries for the first
\* three articles of the batch, the second one odd
Parsed(reply, size) ==
    CASE reply = "text" -> None
      [] reply = "array" ->
             Some(SliceTo(<<GoodAnalysis, OddAnalysis, GoodAnalysis>>, size))

\* Select(s, Test): Array.prototype.filter
RECURSIVE KnownPillars(_)
KnownPillars(pillars) ==
    IF pillars = <<>> THEN <<>>
    ELSE LET rest == KnownPillars(Tail(pillars))
         IN  IF Head(pillars) \in RelevancePillars
                 THEN <<Head(pillars)>> \o rest
                 ELSE rest

\* The record pushed for an item of a batch whose call returned (lines
\* 300-315); analysis is {} where the array has no entry for the item
AnalyzedRecord(item, parsed, idx) ==
    LET analysis == IF parsed # None /\ idx <= Len(parsed[1])
                        THEN parsed[1][idx] ELSE <<>>
        summary == IF Has(analysis, "summary") THEN analysis["summary"]
                   ELSE <<>>
        pillars == IF Has(analysis, "relevancePillars")
                       THEN analysis["relevancePillars"] ELSE None
        score == IF Has(analysis, "relevanceScore")
                     THEN analysis["relevanceScore"] ELSE JsUndefined
        angles == IF Has(analysis, "potentialAngles")
                      THEN analysis["potentialAngles"] ELSE None
    IN  [source |-> item["source"], title |-> item["title"],
         url |-> item["url"], publishedDate |-> item["publishedDate"],
         summary |-> OrElse(summary,
                            SliceTo(item["rawDescription"], SummaryLength)),
         relevancePillars |-> IF pillars # None THEN KnownPillars(pillars[1])
                              ELSE <<>>,
         relevanceScore |-> IF score["t"] = "number"
                                THEN RoundScore(score["v"]) ELSE 0,
         potentialAngles |-> IF angles # None THEN angles[1] ELSE <<>>]

\* The record pushed for an item of a batch whose call threw (lines 318-329)
PlaceholderRecord(item) ==
    [source |-> item["source"], title |-> item["title"],
     url |-> item["url"], publishedDate |-> item["publishedDate"],
     summary |-> OrElse(SliceTo(item["rawDescription"], SummaryLength),
                        <<"Analysis unavailable">>),
     relevancePillars |-> <<>>, relevanceScore |-> 0,
     potentialAngles |-> <<>>]

\* A catch block that pushes nothing for the batch
BatchFailedDropped(batch) == <<>>

\* The catch block of a batch (lines 316-330)
BatchFailed(batch) == [idx \in 1..Len(batch) |-> PlaceholderRecord(batch[idx])]

\* The try block of a batch
BatchAnalyzed(batch, reply) ==
    IF reply = "throw" THEN BatchFailed(batch)
    ELSE [idx \in 1..Len(batch) |->
              AnalyzedRecord(batch[idx], Parsed(reply, Len(batch)), idx)]

\* Math.ceil(toAnalyze.length / BATCH_SIZE)
TotalBatches(n) ==
    LET m == IF n < MaxItemsForAnalysis THEN n ELSE MaxItemsForAnalysis
    IN  (m + BatchSize - 1) \div BatchSize

\* The loop of analyzeArticles from batch number b on
RECURSIVE AnalyzeFrom(_, _, _)
AnalyzeFrom(toAnalyze, replies, b) ==
    LET i == (b - 1) * BatchSize
        last == IF i + BatchSize < Len(toAnalyze) THEN i + BatchSize
                ELSE Len(toAnalyze)
    IN  IF i >= Len(toAnalyze) THEN <<>>
        ELSE BatchAnalyzed(SubSeq(toAnalyze, i + 1, last), replies[b])
                 \o AnalyzeFrom(toAnalyze, replies, b + 1)

analyzeArticles(dryRun, items, replies) ==
    IF dryRun
        THEN [i \in 1..Len(items) |->
                  [source |-> items[i]["source"], title |-> items[i]["title"],
                   url |-> items[i]["url"],
                   publishedDate |-> items[i]["publishedDate"],
                   summary |-> OrElse(SliceTo(items[i]["rawDescription"],
                                              SummaryLength),
                                      <<"No summary (dry run)">>),
                   relevancePillars |-> <<>>, relevanceScore |-> 0,
                   potentialAngles |-> <<>>]]
        ELSE AnalyzeFrom(SliceTo(items, MaxItemsForAnalysis), replies, 1)

\* The comparator of writeOutput is not positive: a stays before b
Before(a, b) ==
    \/ a["relevanceScore"] > b["relevanceScore"]
    \/ /\ a["relevanceScore"] = b["relevanceScore"]
       /\ a["publishedDate"] >= b["publishedDate"]

\* items.sort(...): by score, then by date, both descending, and stable
RECURSIVE SortByRelevance(_)
SortByRelevance(items) ==
    IF Len(items) <= 1 THEN items
    ELSE LET n == Len(items)
             x == items[n]
             sorted == SortByRelevance(SubSeq(items, 1, n - 1))
             k == Cardinality({i \in 1..(n - 1) : Before(sorted[i], x)})
         IN  SubSeq(sorted, 1, k) \o <<x>> \o SubSeq(sorted, k + 1, n - 1)

\* The object writeOutput writes to research-feed.json
writeOutput(dryRun, items) ==
    LET sorted == SortByRelevance(items)
    IN  [dryRun |-> dryRun, totalItems |-> Len(sorted),
         highRelevanceCount |->
             Cardinality({i \in 1..Len(sorted) :
                              sorted[i]["relevanceScore"] >= HighRelevance}),
         items |-> sorted]

\* main from the deduplicated list on: analysis, unless the list is empty,
\* and the feed written
Analyze(dryRun, n, replies) ==
    LET allItems == RawItems(n)
        analyzed == IF n > 0 THEN analyzeArticles(dryRun, allItems, replies)
                    ELSE <<>>
    IN  /\ call = NoCall
        /\ call' = [fn |-> "analyzeArticles", dryRun |-> dryRun,
                    items |-> allItems, replies |-> replies,
                    result |-> analyzed,
                    feed |-> Some(writeOutput(dryRun, analyzed))]
        /\ UNCHANGED Files

NextAnalyze ==
    \E n \in 0..NumRaw, dryRun \in BOOLEAN :
        \E replies \in [1..(IF dryRun THEN 0 ELSE TotalBatches(n)) -> ReplyKinds] :
            Analyze(dryRun, n, replies)

SpecAnalyze == PureInit /\ [][NextAnalyze]_vars

-----------------------------------------------------------------------------
(* research-agent.js: deduplicateItems over short lists of items whose      *)
(* titles and urls coincide, differ, or meet only after normalisation       *)

MaxDedup == 3

FingerprintLength == 60

MinFingerprint == 10

\* The characters of [a-z0-9] that occur in the titles
LowerAlphaNumeric == {"a", "b", "c", "0", "1"}

\* String.prototype.replace(/[^a-z0-9]/g, '')
StripNonAlphaNumeric(s) == SelectSeq(s, LAMBDA c : c \in LowerAlphaNumeric)

\* norm (line 232)
Fingerprint(title) ==
    SliceTo(StripNonAlphaNumeric(ToLowerCase(title)), FingerprintLength)

\* The filter of deduplicateItems from the i-th item on; seen holds the keys
\* of the Map, urls and fingerprints alike
RECURSIVE DedupFrom(_, _, _)
DedupFrom(items, i, seen) ==
    IF i > Len(items) THEN <<>>
    ELSE LET item == items[i]
             norm == Fingerprint(item["title"])
         IN  IF item["url"] # <<>> /\ item["url"] \in seen
                 THEN DedupFrom(items, i + 1, seen)
             ELSE IF Len(norm) > MinFingerprint /\ norm \in seen
                 THEN DedupFrom(items, i + 1, seen)
             ELSE <<item>> \o
                  DedupFrom(items, i + 1,
                            seen \cup (IF item["url"] # <<>> THEN {item["url"]}
                                       ELSE {})
                                 \cup (IF Len(norm) > MinFingerprint THEN {norm}
                                       ELSE {}))

deduplicateItems(items) == DedupFrom(items, 1, {})

\* n times the character c
Repeat(c, n) == [i \in 1..n |-> c]

\* Titles: eleven characters; the same after normalisation; ten characters;
\* eleven others; and two that differ in the 61st character only
DedupTitles ==
    {Repeat("a", MinFingerprint) \o <<"b">>,
     <<"A", "-">> \o Repeat("a", MinFingerprint - 1) \o <<" ", "b">>,
     Repeat("a", MinFingerprint),
     Repeat("a", MinFingerprint) \o <<"c">>,
     Repeat("a", FingerprintLength) \o <<"b">>,
     Repeat("a", FingerprintLength) \o <<"c">>}

\* Urls: none, a link, and a guid of lower-case letters
DedupUrls == {<<>>, <<"u">>, Repeat("a", MinFingerprint) \o <<"b">>}

DedupItems == {[title |-> t, url |-> u] : t \in DedupTitles, u \in DedupUrls}

CallDedup(items) ==
    /\ call = NoCall
    /\ call' = [fn |-> "deduplicateItems", items |-> items,
                result |-> deduplicateItems(items)]
    /\ UNCHANGED Files

NextDedup == \E items \in SeqsUpTo(DedupItems, MaxDedup) : CallDedup(items)

SpecDedup == PureInit /\ [][NextDedup]_vars

-----------------------------------------------------------------------------
(* generate-next invocations one after the other over a Topic Bank of 180   *)
(* days, from a schedule that init-schedule.js has written; the oracle and  *)
(* both writes succeed and there is no research feed                        *)

FullBank == Bank(LastDay)

\* The content files init-schedule.js finds: none, a post of day 3 and one
\* that names no topic, those of all days but the last, those of all days
PriorFiles ==
    {{}, {Topic(3)["slug"], ManualSlug},
     {Topic(d)["slug"] : d \in 1..(LastDay - 1)},
     {Topic(d)["slug"] : d \in 1..LastDay}}

ProgressInit ==
    /\ topicBank = Some(FullBank)
    /\ blog \in PriorFiles
    /\ \E startDate \in StartDates :
          schedFile = Some([startDate |-> startDate, totalDays |-> LastDay,
                            posts |-> ExistingPosts(FullBank, blog, startDate)])
    /\ pc = [p \in Procs |-> "idle"]
    /\ local = [p \in Procs |-> IdleLocal]
    /\ outcome = [p \in Procs |-> NoOutcome]
    /\ effects = [p \in Procs |-> <<>>]
    /\ taint = [p \in Procs |-> {}]
    /\ stuck = {}
    /\ call = NoCall

NextProgress ==
    \/ GenLoad("g1", FALSE, None, Today)
    \/ GenCheck("g1", None, FreshHours, TRUE)
    \/ GenOracle("g1", TRUE)
    \/ GenWrite("g1", TRUE)
    \/ GenSave("g1", TRUE)

SpecProgress == ProgressInit /\ [][NextProgress]_vars

-----------------------------------------------------------------------------
(* The claims *)

Store == Posts(schedFile)

Ran(p) == outcome[p]["how"] # "none"

\* C1 (idempotent skip): a run, for an auto-selected or an explicit day,
\* whose topic's content file exists when it is invoked finds it at the
\* existence check (content files are never removed) and ends there with
\* the skip outcome, unless it is killed first: it has called no oracle and
\* written nothing, and its steps leave the content files and the Schedule
\* Store as they are.
CIdempotentSkip ==
    [][/\ blog \subseteq blog'
       /\ \A p \in Procs :
            /\ (/\ pc[p] = "idle"
                /\ pc'[p] = "check"
                /\ local'[p]["topic"][1]["slug"] \in blog)
                  => /\ effects'[p] = <<>>
                     /\ UNCHANGED <<schedFile, blog>>
            /\ (/\ pc[p] = "check"
                /\ local[p]["topic"][1]["slug"] \in blog
                /\ pc'[p] # "check")
                  => /\ outcome'[p]["how"] \in {"skip", "killed"}
                     /\ effects'[p] = <<>>
                     /\ UNCHANGED <<schedFile, blog>>]_vars

\* C1 witness: a run for an auto-selected day has just ended with a skip,
\* the Schedule Store in place.
WSkipped ==
    /\ outcome["g1"]["how"] = "skip"
    /\ ~outcome["g1"]["explicit"]
    /\ schedFile # None

AllPublished ==
    /\ topicBank # None
    /\ \A i \in 1..Len(topicBank[1]) : Published(Store, topicBank[1][i]["day"])

\* C2 (Day Selector): over a bank of N topics the selector returns the
\* smallest day of 1..N that is not published, and the completion sentinel
\* (0) exactly when every day of 1..N is published.
CDaySelector ==
    call["fn"] = "getNextScheduledDay" =>
        LET open == {d \in 1..call["topics"] :
                        ~Published(call["schedule"]["posts"], d)}
        IN  /\ open # {} =>
                  /\ call["result"] \in open
                  /\ \A d \in open : call["result"] <= d
            /\ open = {} <=> call["result"] = 0

\* C3 (completion is distinct from error): a generate-next run that finds
\* every day of the Topic Bank published ends with the completion outcome,
\* without side effects, and not with the 'no topic found' error.
CCompletion ==
    \A p \in Procs :
        (Ran(p) /\ ~outcome[p]["explicit"] /\ AllPublished
            /\ outcome[p]["how"] \in {"complete", "no-topic"})
          => (outcome[p]["how"] = "complete" /\ effects[p] = <<>>)

Order == <<"oracle", "file", "schedule">>

EarlyExits ==
    {"no-bank", "complete", "no-topic", "skip", "preview", "fatal-feed",
     "no-key"}

\* C4 (side-effect ordering): the side effects of a run are, in order, the
\* oracle call, the content file and the Schedule Store update: at every
\* moment an initial part of that list; a run that ends by a skip, a preview
\* or a configuration error has had none, one whose oracle call or file
\* write fails has only called the oracle, a successful one has had all
\* three, and nothing happens on behalf of a run that has ended.
CSideEffectOrder ==
    \A p \in Procs :
        /\ Len(effects[p]) <= 3
        /\ effects[p] = SubSeq(Order, 1, Len(effects[p]))
        /\ outcome[p]["how"] \in EarlyExits => effects[p] = <<>>
        /\ outcome[p]["how"] \in {"fatal-oracle", "fatal-write"}
              => effects[p] = <<"oracle">>
        /\ outcome[p]["how"] = "fatal-save" => effects[p] = <<"oracle", "file">>
        /\ outcome[p]["how"] = "done" => effects[p] = Order
        /\ (~InFlight(p) /\ ~Ran(p)) => effects[p] = <<>>

\* C4 witness: a run has just ended successfully after the three effects.
WAllEffects ==
    /\ outcome["g1"]["how"] = "done"
    /\ effects["g1"] = Order

GeneratorFields ==
    {"slug", "title", "date", "pillar", "format", "status", "generatedAt",
     "hadResearchIntegration", "hadEditorialNote"}

\* C5 (merge on publish): the save that marks day d published keeps, of the
\* record of d the run loaded, every field the generator does not set, and
\* keeps the records of all other days; when no other writer has written
\* the Schedule Store since the run loaded it, these are the fields and the
\* records the store held just before the save.
CMergeOnPublish ==
    [][\A p \in Procs :
         effects'[p] = Append(effects[p], "schedule") =>
            LET d == local[p]["targetDay"]
                prior == Posts(local[p]["schedule"])
                after == Posts(schedFile')
            IN  /\ Published(after, d)
                /\ DOMAIN after = DOMAIN prior \cup {d}
                /\ \A e \in DOMAIN prior \ {d} : after[e] = prior[e]
                /\ d \in DOMAIN prior =>
                      \A f \in DOMAIN prior[d] \ GeneratorFields :
                          Has(after[d], f) /\ after[d][f] = prior[d][f]
                /\ "overlap" \notin taint[p] => Store = prior]_vars

\* C5 witness: a run no writer overlapped has just published a day whose
\* record carried an editorial note.
WMerged ==
    /\ outcome["g1"]["how"] = "done"
    /\ taint["g1"] = {}
    /\ Has(Store[outcome["g1"]["day"]], "noteUpdatedAt")
    /\ Cardinality(DOMAIN Store) > 1

\* C6 (published is never reverted): over invocations of the generator, the
\* initializer and the two handlers that each run to completion, a day that
\* is published stays published.
CPublishedStays ==
    [][\A d \in DOMAIN Store :
          Published(Store, d) => Published(Posts(schedFile'), d)]_vars

\* C6 witness: a generated day has been through a re-initialization and a
\* later editorial note, and is published.
WStillPublished ==
    /\ NumTopics \in DOMAIN Store
    /\ Published(Store, NumTopics)
    /\ Store[NumTopics]["generatedAt"] = "pre-existing"
    /\ Has(Store[NumTopics], "editorialNote")

Completed ==
    EarlyExits \cup {"fatal-oracle", "fatal-write", "fatal-save", "done"}

LowestUnpublished(d) ==
    /\ ~Published(Store, d)
    /\ \A e \in 1..(d - 1) : Published(Store, e)

\* C8 as written (crash between the two writes): once a run for day d has
\* been killed between its two writes, every later generate-next run that
\* is not itself killed has selected d and ended with a skip, so without
\* publishing d.
CStuckForever ==
    \A d \in stuck : \A p \in Procs :
        (Ran(p) /\ outcome[p]["how"] # "killed" /\ ~outcome[p]["explicit"])
          => (outcome[p]["day"] = d /\ outcome[p]["how"] = "skip")

\* C8 as amended: once a run for day d has been killed between its two
\* writes, d becomes published only by a re-initialization of the Schedule
\* Store (which backfills it); a later generate-next run that finds d the
\* lowest unpublished day selects d, and a run that has selected d ends at
\* the existence check with a skip (unless it is killed), having done
\* nothing.
CStuckAmended ==
    [][\A d \in stuck :
         /\ (~Published(Store, d) /\ Published(Posts(schedFile'), d))
               => Posts(schedFile')[d]["generatedAt"] = "pre-existing"
         /\ \A p \in Procs :
              /\ (/\ pc[p] = "idle"
                  /\ LowestUnpublished(d)
                  /\ \/ pc'[p] = "check" /\ ~Truthy(local'[p]["specificDay"])
                     \/ Ran(p)' /\ outcome'[p]["how"] # "killed"
                                /\ ~outcome'[p]["explicit"])
                    => (pc'[p] = "check" /\ local'[p]["targetDay"] = d)
              /\ (/\ pc[p] = "check"
                  /\ local[p]["targetDay"] = d
                  /\ pc'[p] # "check")
                    => /\ outcome'[p]["how"] \in {"skip", "killed"}
                       /\ effects'[p] = <<>>
                       /\ UNCHANGED <<schedFile, blog>>]_vars

\* C8 witness: a generate-next run has just skipped a day whose earlier run
\* was killed between the two writes.
WStuckSkipped ==
    /\ outcome["g1"]["how"] = "skip"
    /\ ~outcome["g1"]["explicit"]
    /\ outcome["g1"]["day"] \in stuck

\* The calendar: startDate + n days, month by month
LeapYear(y) == (y % 4 = 0 /\ y % 100 # 0) \/ y % 400 = 0

DaysInMonth(y, m) ==
    IF m = 2 THEN (IF LeapYear(y) THEN 29 ELSE 28)
    ELSE IF m \in {4, 6, 9, 11} THEN 30 ELSE 31

RECURSIVE AddDays(_, _)
AddDays(date, n) ==
    LET y == date[1]
        m == date[2]
        d == date[3]
        left == DaysInMonth(y, m) - d
    IN  IF n <= left THEN <<y, m, d + n>>
        ELSE AddDays(IF m = 12 THEN <<y + 1, 1, 1>> ELSE <<y, m + 1, 1>>,
                     n - left - 1)

\* C9 (date mapping): for a start date and a day d of 1..180, the
\* generator's and the initializer's getDateForDay both return the calendar
\* date startDate + (d - 1) days, and the date each of them stores in
\* posts[d] is that date.
CDateMapping ==
    call["fn"] = "getDateForDay" =>
        LET date == AddDays(call["startDate"], call["day"] - 1)
        IN  /\ call["generator"] = date
            /\ call["initializer"] = date
            /\ call["generated"] = date
            /\ call["backfilled"] = date

\* C9 witness: day 178 from 2027-09-05 is the leap day 2028-02-29.
WLeapDay ==
    /\ call["fn"] = "getDateForDay"
    /\ call["startDate"] = <<2027, 9, 5>>
    /\ call["day"] = 178
    /\ call["generator"] = <<2028, 2, 29>>

\* C10 (Research Matcher bound): the matcher returns at most 3 items, each
\* with a numeric relevanceScore of at least 0.5, whatever the feed's items
\* carry as relevanceScore.
CMatcherBound ==
    call["fn"] = "findRelevantResearch" =>
        /\ Len(call["result"]) <= ResearchLimit
        /\ \A i \in 1..Len(call["result"]) :
              /\ Has(call["result"][i], "relevanceScore")
              /\ call["result"][i]["relevanceScore"]["t"] = "number"
              /\ call["result"][i]["relevanceScore"]["v"] >= ScoreThreshold

\* The feed file of the recorded call parses and its generatedAt is a date
DatedFeed ==
    /\ call["file"] # None
    /\ call["file"][1]["parses"]
    /\ Has(call["file"][1]["value"], "generatedAt")
    /\ call["file"][1]["value"]["generatedAt"]["t"] = "number"

FeedAgeHours == call["now"] - call["file"][1]["value"]["generatedAt"]["v"]

MalformedFeed ==
    /\ call["file"] # None
    /\ \/ ~call["file"][1]["parses"]
       \/ ~Has(call["file"][1]["value"], "items")
       \/ ~DatedFeed

\* C12: when the feed file is present but malformed (not parseable, without
\* an items list or without a valid generatedAt), the matcher yields the
\* empty sequence and the run continues without research instead of
\* aborting.
CMalformedFeed ==
    (call["fn"] = "loadResearchFeed" /\ MalformedFeed) =>
        /\ ~call["threw"]
        /\ call["research"] = <<>>
        /\ call["saved"] # None
        /\ call["saved"][1]["hadResearchIntegration"] = FALSE

\* The request holds the note, whole, as the editor's guidance
HoldsNote(request, note) ==
    \E i \in 1..Len(request) :
        request[i] = Line("EDITORIAL GUIDANCE FROM THE EDITOR", <<note>>)

\* C13: a non-empty editorial note attached to day d appears verbatim in the
\* request assembled for day d, and the request assembled for any other day
\* is the same whether or not day d carries that note.
CNoteIsolation ==
    call["fn"] = "generatePost" =>
        /\ call["target"] = call["noteDay"] =>
              HoldsNote(call["with"], call["note"])
        /\ call["target"] # call["noteDay"] =>
              /\ call["with"] = call["without"]
              /\ ~HoldsNote(call["with"], call["note"])

\* A request for another day than the noted one, carrying that day's own note
WOtherDayRequest ==
    /\ call["fn"] = "generatePost"
    /\ call["target"] # call["noteDay"]
    /\ HoldsNote(call["with"], OwnNote)

\* C14: a generation invocation in preview mode performs day selection and
\* research matching for the target topic, makes no oracle call, writes no
\* content file and leaves the Schedule Store unchanged: a run that ends
\* with the preview outcome has selected a day, has matched the research
\* feed against its topic and has had no side effect.
CPreview ==
    \A p \in Procs :
        outcome[p]["how"] = "preview" =>
            /\ outcome[p]["day"] # 0
            /\ outcome[p]["matched"]
            /\ effects[p] = <<>>

\* The Topic Bank has a TopicRecord with that day number
HasTopic(day) ==
    /\ topicBank # None
    /\ \E i \in 1..Len(topicBank[1]) : topicBank[1][i]["day"] = day

\* The step is the first one of a run of p (lines 247-285)
Loads(p) == pc[p] = "idle" /\ (pc'[p] # "idle" \/ outcome'[p]["how"] # "none")

\* C15: if the Topic Bank file is missing, or the target day has no
\* TopicRecord with that day number, the run aborts with a non-zero outcome
\* having made no oracle call, written no content file and left the Schedule
\* Store unchanged; a run goes past its first step only with the target
\* day's own TopicRecord.
CConfigErrors ==
    [][\A p \in Procs :
          Loads(p) =>
              /\ topicBank = None => outcome'[p]["how"] = "no-bank"
              /\ (/\ topicBank # None
                  /\ outcome'[p]["how"] # "none"
                  /\ outcome'[p]["day"] # 0
                  /\ ~HasTopic(outcome'[p]["day"]))
                    => outcome'[p]["how"] = "no-topic"
              /\ outcome'[p]["how"] \in {"no-bank", "no-topic"} =>
                    /\ ExitCode(outcome'[p]["how"]) # 0
                    /\ effects'[p] = <<>>
                    /\ pc'[p] = "idle"
                    /\ blog' = blog
                    /\ schedFile' = schedFile
              /\ pc'[p] = "check" =>
                    /\ HasTopic(local'[p]["targetDay"])
                    /\ local'[p]["topic"][1]["day"] = local'[p]["targetDay"]
      ]_vars

\* A run for a day past the bank was aborted while content files and a
\* schedule exist
WNoTopic ==
    \E p \in Procs :
        /\ outcome[p]["how"] = "no-topic"
        /\ outcome[p]["explicit"]
        /\ blog # {}
        /\ schedFile # None

OracleCalls(p) == Cardinality({i \in 1..Len(effects[p]) : effects[p][i] = "oracle"})

\* What loadSchedule gives for the Schedule Store as it is
StoreNow ==
    IF schedFile # None THEN schedFile[1]
    ELSE [startDate |-> Today, posts |-> <<>>]

\* C17: a generation invocation calls the oracle at most once; if that call
\* fails the run ends with a fatal non-zero outcome, no content file is
\* written and the Schedule Store is unchanged, so the Day Selector gives
\* the same day after the failure as before it, and when the failed run was
\* a generate-next run that day is the run's own.
COracleFailure ==
    [][\A p \in Procs :
          /\ OracleCalls(p)' <= 1
          /\ (pc[p] = "oracle" /\ outcome'[p]["how"] = "fatal-oracle") =>
                /\ ExitCode(outcome'[p]["how"]) # 0
                /\ effects'[p] = <<"oracle">>
                /\ pc'[p] = "idle"
                /\ blog' = blog
                /\ schedFile' = schedFile
                /\ getNextScheduledDay(StoreNow') = getNextScheduledDay(StoreNow)
                /\ ~outcome'[p]["explicit"] =>
                      getNextScheduledDay(StoreNow') = outcome'[p]["day"]
      ]_vars

\* A generate-next run for the second day ended by a failed oracle call
WOracleFailed ==
    \E p \in Procs :
        /\ outcome[p]["how"] = "fatal-oracle"
        /\ ~outcome[p]["explicit"]
        /\ outcome[p]["day"] = 2
        /\ getNextScheduledDay(StoreNow) = 2

\* The record of day e in the store differs from the one the run of p loaded
ChangedSince(p, e) ==
    LET prior == Posts(local[p]["schedule"])
    IN  e \notin DOMAIN prior \/ prior[e] # Store[e]

\* C18: every writer reads the whole Schedule Store and later writes the
\* whole file without locking, so when writers overlap there is a reachable
\* interleaving in which the final store lacks the update of one of them
\* (last write wins on the whole file): a generator run's save writes what
\* the run loaded, and every change another writer has made since then, to
\* another day's record or to a field of the run's day that the generator
\* does not set, is absent from the store after the save; such saves over a
\* changed file are reachable.
CLostUpdate ==
    [][\A p \in Procs :
         effects'[p] = Append(effects[p], "schedule") =>
            LET d == local[p]["targetDay"]
                prior == Posts(local[p]["schedule"])
                after == Posts(schedFile')
            IN  /\ ("stale" \in taint'[p]) <=>
                      (schedFile # None /\ schedFile # local[p]["schedule"])
                /\ \A e \in DOMAIN Store \ {d} :
                      ChangedSince(p, e) =>
                          e \notin DOMAIN after \/ after[e] # Store[e]
                /\ d \in DOMAIN Store =>
                      \A f \in DOMAIN Store[d] \ GeneratorFields :
                          (d \notin DOMAIN prior
                              \/ ~Has(prior[d], f)
                              \/ prior[d][f] # Store[d][f]) =>
                             ~Has(after[d], f) \/ after[d][f] # Store[d][f]
      ]_vars

\* Two runs have overlapped and both have ended: the one for day 1 has
\* saved last, over the store the other had changed, and day 2, whose
\* content file the other run wrote and whose record it saved, is not
\* published in the store
WOverwritten ==
    \E p \in Procs :
        /\ \A q \in Procs : ~InFlight(q)
        /\ outcome[p]["how"] = "done"
        /\ outcome[p]["day"] = 1
        /\ "stale" \in taint[p]
        /\ Topic(2)["slug"] \in blog
        /\ ~Published(Store, 2)

\* The batch file is a JSON array of topics
WellFormed(file) == file # None /\ file[1]["parses"] /\ file[1]["isArray"]

RECURSIVE SumLen(_, _)
SumLen(files, i) ==
    IF i = 0 THEN 0
    ELSE SumLen(files, i - 1)
         + (IF WellFormed(files[i]) THEN Len(files[i][1]["data"]) ELSE 0)

\* C19: for batch files that are well-formed or missing, with
\* non-overlapping days, the persisted Topic Bank is sorted ascending by day,
\* its length is the sum of the lengths of the batches that were loaded and
\* it holds each of their topics; a missing batch file produces a warning
\* and the remaining batches are still merged and persisted.
CCombined ==
    (/\ call["fn"] = "combine-topics"
     /\ \A i \in 1..NumBatches :
            call["files"][i] = None \/ WellFormed(call["files"][i])) =>
        LET files == call["files"]
            bank == topicBank[1]
        IN  /\ topicBank # None
            /\ \A i, j \in 1..Len(bank) : i < j => bank[i]["day"] < bank[j]["day"]
            /\ Len(bank) = SumLen(files, NumBatches)
            /\ \A i \in 1..NumBatches :
                  WellFormed(files[i]) =>
                      \A k \in 1..Len(files[i][1]["data"]) :
                          \E j \in 1..Len(bank) : bank[j] = files[i][1]["data"][k]
            /\ (\E i \in 1..NumBatches : files[i] = None) =>
                  \E k \in 1..Len(call["log"]) : call["log"][k] = "WARNING"

\* The second batch file is missing, the first holds the last day and the
\* third the first two days in descending order; the bank holds all three
WCombinedWithMissing ==
    /\ call["fn"] = "combine-topics"
    /\ call["files"][2] = None
    /\ WellFormed(call["files"][1])
    /\ WellFormed(call["files"][3])
    /\ call["files"][1][1]["data"] = <<Topic(CombineDays)>>
    /\ Len(call["files"][3][1]["data"]) = 2
    /\ call["files"][3][1]["data"][1] = Topic(2)
    /\ topicBank = Some(<<Topic(1), Topic(2), Topic(CombineDays)>>)

\* C20: generate.js (single slug or --all) never overwrites an existing
\* content file and makes no oracle call for a topic whose file exists, so
\* after a fully successful --all run every topic has its file and a later
\* run makes no oracle call and writes no content file.
CLegacyRerun ==
    call["fn"] = "generate.js" =>
        /\ ~call["over"]
        /\ call["waiting"] => LegacyTopics[call["at"]]["slug"] \notin blog
        /\ \A i \in 1..Len(call["calls"]) :
              \A j \in 1..Len(call["calls"]) :
                  call["calls"][i] = call["calls"][j] => i = j
        /\ call["completeAt"] > 0 =>
              \A i \in 1..Len(LegacyTopics) : LegacyTopics[i]["slug"] \in blog
        /\ (call["completeAt"] > 0 /\ call["run"] > call["completeAt"]) =>
              /\ call["calls"] = <<>>
              /\ call["wrote"] = <<>>

\* A second --all run has ended, after a first that wrote every file, with
\* no oracle call
WSecondRunIdle ==
    /\ call["fn"] = "generate.js"
    /\ call["made"] = NumLegacy
    /\ call["completeAt"] = 1
    /\ call["run"] = 2
    /\ call["all"]
    /\ call["ended"] = "ok"
    /\ call["calls"] = <<>>

\* The six formats and their read times
FormatTable ==
    [f \in {"deep-dive", "field-tip", "myth-buster", "incident-analysis",
            "research-spotlight", "leadership-brief"} |->
        CASE f = "deep-dive" -> "6 min"
          [] f = "field-tip" -> "3 min"
          [] f = "incident-analysis" -> "5 min"
          [] OTHER -> "4 min"]

\* C21: for every topic, readTime is the value of the fixed format table
\* (field-tip gives "3 min") and the fallback "5 min" when the format is not
\* one of the six, and featured is true iff the format is deep-dive.
CFrontmatter ==
    call["fn"] = "buildFrontmatter" =>
        LET format == call["format"]
            known == format # None /\ format[1] \in DOMAIN FormatTable
        IN  /\ known => call["result"]["readTime"] = FormatTable[format[1]]
            /\ ~known => call["result"]["readTime"] = "5 min"
            /\ call["result"]["featured"] <=> format = Some("deep-dive")
            /\ format = Some("field-tip") =>
                  /\ call["result"]["readTime"] = "3 min"
                  /\ call["result"]["featured"] = FALSE

\* The whitespace-delimited tokens of a keyword
Tokens(keyword) ==
    LET pieces == Split(keyword, " ")
    IN  {pieces[i] : i \in {j \in 1..Len(pieces) : pieces[j] # <<>>}}

\* The relevance predicate as stated
Qualifies(topic, item) ==
    /\ Has(item, "relevanceScore")
    /\ item["relevanceScore"]["t"] = "number"
    /\ item["relevanceScore"]["v"] >= ScoreThreshold
    /\ \/ \E i \in 1..Len(item["relevancePillars"]) :
             \/ item["relevancePillars"][i] = topic["pillar"]
             \/ Includes(item["relevancePillars"][i],
                         Split(topic["pillar"], "-")[1])
       \/ \E token \in Tokens(topic["targetKeyword"]) :
             \/ Includes(ToLowerCase(item["title"]), ToLowerCase(token))
             \/ /\ Has(item, "summary")
                /\ Includes(ToLowerCase(item["summary"]), ToLowerCase(token))

RECURSIVE Qualifying(_, _)
Qualifying(topic, items) ==
    IF items = <<>> THEN <<>>
    ELSE (IF Qualifies(topic, Head(items)) THEN <<Head(items)>> ELSE <<>>)
         \o Qualifying(topic, Tail(items))

\* C22: findRelevantResearch returns exactly the first (up to 3) items of
\* the feed, in feed order, that have relevanceScore >= 0.5 and (a) a tag
\* that equals the topic's pillar or contains the pillar's first
\* hyphen-delimited segment, or (b) a whitespace-delimited token of the
\* target keyword occurring, compared case-insensitively, in the title or
\* the summary.
CRelevance ==
    (call["fn"] = "findRelevantResearch" /\ Has(call, "topic")) =>
        LET all == Qualifying(call["topic"], call["items"])
        IN  call["result"] =
                SubSeq(all, 1, IF Len(all) < 3 THEN Len(all) ELSE 3)

\* C23: after schedule initialization with start date s, for every topic
\* whose slug names an existing content file, posts[topic.day] exists with
\* status "published", generatedAt "pre-existing" and date s + (day - 1);
\* content files whose name matches no topic's slug produce no entry.
CBackfill ==
    [][\A s \in StartDates :
          (InitSchedule(s) /\ topicBank # None) =>
              LET topics == topicBank[1]
                  posts == Posts(schedFile')
              IN  /\ \A i \in 1..Len(topics) :
                        topics[i]["slug"] \in blog =>
                            /\ topics[i]["day"] \in DOMAIN posts
                            /\ posts[topics[i]["day"]]["status"] = "published"
                            /\ posts[topics[i]["day"]]["generatedAt"]
                                   = "pre-existing"
                            /\ posts[topics[i]["day"]]["date"]
                                   = AddDays(s, topics[i]["day"] - 1)
                  /\ \A d \in DOMAIN posts :
                        \E i \in 1..Len(topics) :
                            /\ topics[i]["day"] = d
                            /\ topics[i]["slug"] \in blog
      ]_vars

\* The initializer has backfilled the first day from a content file added
\* by hand, next to a content file that matches no topic
WBackfilled ==
    /\ ManualSlug \in blog
    /\ schedFile # None
    /\ DOMAIN Store = {1}
    /\ Store[1]["generatedAt"] = "pre-existing"
    /\ Store[1]["date"] = <<2027, 12, 31>>

\* The number of the batch the i-th item is sent in
BatchNumber(i) == ((i - 1) \div BatchSize) + 1

\* The replies with every failing call answered by an array instead
WithoutFailures(replies) ==
    [b \in DOMAIN replies |-> IF replies[b] = "throw" THEN "array" ELSE replies[b]]

\* C24: whatever calls of the oracle fail, analyzeArticles returns one record
\* for each of the first 30 items, in their order; the records of a failed
\* batch have relevanceScore 0 and no pillars, the records of the other
\* batches are the ones a run without failures gives, and the feed is
\* written with these records
CBatchIsolation ==
    (call # NoCall /\ call["fn"] = "analyzeArticles" /\ ~call["dryRun"]) =>
        LET items == call["items"]
            replies == call["replies"]
            result == call["result"]
            m == IF Len(items) < MaxItemsForAnalysis THEN Len(items)
                 ELSE MaxItemsForAnalysis
            unfailed == analyzeArticles(FALSE, items, WithoutFailures(replies))
        IN  /\ Len(result) = m
            /\ \A i \in 1..m :
                  /\ result[i]["title"] = items[i]["title"]
                  /\ result[i]["url"] = items[i]["url"]
                  /\ IF replies[BatchNumber(i)] = "throw"
                         THEN /\ result[i]["relevanceScore"] = 0
                              /\ result[i]["relevancePillars"] = <<>>
                         ELSE result[i] = unfailed[i]
            /\ call["feed"] # None
            /\ call["feed"][1]["totalItems"] = m
            /\ \A i \in 1..m :
                  \E j \in 1..m : call["feed"][1]["items"][j] = result[i]

WBatchFailedAmongOthers ==
    /\ call # NoCall /\ call["fn"] = "analyzeArticles" /\ ~call["dryRun"]
    /\ Len(call["items"]) > MaxItemsForAnalysis
    /\ call["replies"][2] = "throw"
    /\ call["replies"][1] = "array"
    /\ call["replies"][6] = "text"
    /\ call["result"][1]["relevanceScore"] = 88
    /\ call["result"][1]["relevancePillars"] = <<Pillar>>
    /\ call["result"][6]["relevanceScore"] = 0

\* How often the record x occurs in the sequence s
Count(s, x) == Cardinality({k \in 1..Len(s) : s[k] = x})

RECURSIVE CountLoaded(_, _, _)
CountLoaded(files, i, x) ==
    IF i = 0 THEN 0
    ELSE CountLoaded(files, i - 1, x)
         + (IF WellFormed(files[i]) THEN Count(files[i][1]["data"], x) ELSE 0)

\* Some day (or slug) is held by two records of the loaded batches
Overlap(files, field) ==
    \E i, j \in 1..NumBatches :
        /\ WellFormed(files[i]) /\ WellFormed(files[j])
        /\ \E k \in 1..Len(files[i][1]["data"]), l \in 1..Len(files[j][1]["data"]) :
              /\ i # j \/ k # l
              /\ files[i][1]["data"][k][field] = files[j][1]["data"][l][field]

\* C25: whatever batch files are unparseable or hold no sequence, and whatever
\* days or slugs the loaded batches share, the Topic Bank is persisted,
\* sorted by day, and holds every record of every loaded batch as often as
\* the batches hold it; a bad file adds nothing, and shared days or slugs
\* produce a warning and nothing else.
CNeverAborts ==
    (call # NoCall /\ call["fn"] = "combine-topics") =>
        LET files == call["files"]
            bank == topicBank[1]
            log == call["log"]
        IN  /\ topicBank # None
            /\ \A i, j \in 1..Len(bank) : i < j => bank[i]["day"] <= bank[j]["day"]
            /\ Len(bank) = SumLen(files, NumBatches)
            /\ \A k \in 1..Len(bank) :
                  Count(bank, bank[k]) = CountLoaded(files, NumBatches, bank[k])
            /\ \A i \in 1..NumBatches :
                  WellFormed(files[i]) =>
                      \A k \in 1..Len(files[i][1]["data"]) :
                          Count(bank, files[i][1]["data"][k]) > 0
            /\ Overlap(files, "day") <=>
                  \E k \in 1..Len(log) : log[k] = "WARNING: Duplicate days"
            /\ Overlap(files, "slug") <=>
                  \E k \in 1..Len(log) : log[k] = "WARNING: Duplicate slugs"

\* The first file is unparseable, the second and third share day 1 under
\* two titles and the third holds the slug of day 1 again; the bank holds
\* all three records
WMergedPastBadFile ==
    /\ call # NoCall /\ call["fn"] = "combine-topics"
    /\ call["files"][1] = BatchFile("garbage", <<>>)
    /\ call["files"][2] = BatchFile("array", <<Retitled, Topic(2)>>)
    /\ call["files"][3] = BatchFile("array", <<Topic(2), Topic(1)>>)
    /\ topicBank = Some(<<Retitled, Topic(1), Topic(2), Topic(2)>>)

\* The items of s at the indices of S, in their order
RECURSIVE Restrict(_, _, _)
Restrict(s, S, i) ==
    IF i > Len(s) THEN <<>>
    ELSE (IF i \in S THEN <<s[i]>> ELSE <<>>) \o Restrict(s, S, i + 1)

SameUrl(a, b) == a["url"] # <<>> /\ a["url"] = b["url"]

SameFingerprint(a, b) ==
    /\ Len(Fingerprint(a["title"])) > MinFingerprint
    /\ Fingerprint(a["title"]) = Fingerprint(b["title"])

\* C26: deduplicateItems returns a subsequence of its input in which no two
\* items share a non-empty url or a fingerprint longer than 10 characters;
\* an item is dropped only if an earlier kept item has its url or its
\* fingerprint; and the output is a fixed point of deduplicateItems.
CDedup ==
    (call # NoCall /\ call["fn"] = "deduplicateItems") =>
        LET items == call["items"]
            result == call["result"]
        IN  /\ \E S \in SUBSET (1..Len(items)) :
                  /\ result = Restrict(items, S, 1)
                  /\ \A i \in (1..Len(items)) \ S :
                        \E j \in S :
                            /\ j < i
                            /\ \/ SameUrl(items[j], items[i])
                               \/ SameFingerprint(items[j], items[i])
            /\ \A i, j \in 1..Len(result) :
                  i < j => /\ ~SameUrl(result[i], result[j])
                           /\ ~SameFingerprint(result[i], result[j])
            /\ deduplicateItems(result) = result

PublishedDays == {d \in 1..LastDay : Published(Store, d)}

\* The days a generator run has published, as against the backfilled ones
GeneratedDays ==
    {d \in DOMAIN Store : Store[d]["generatedAt"] = Timestamp}

\* C27: over a bank of 180 dense days and a store written by the
\* initializer, with every generate-next invocation succeeding, an
\* invocation that finds an unpublished day selects the lowest one, changes
\* the set of published days only as it ends, and ends having added exactly
\* that day, which is above every day generated before; so each invocation
\* adds one day, at most 180 can do so, and an invocation that finds every
\* day published reports completion.
CProgress ==
    [][LET d == local'["g1"]["targetDay"]
           t == local["g1"]["targetDay"]
       IN  /\ pc["g1"] = "idle" =>
                 IF PublishedDays = 1..LastDay
                     THEN outcome'["g1"]["how"] = "complete"
                     ELSE /\ pc'["g1"] = "check"
                          /\ LowestUnpublished(d)
           /\ pc'["g1"] # "idle" => PublishedDays' = PublishedDays
           /\ (pc["g1"] # "idle" /\ pc'["g1"] = "idle") =>
                 /\ outcome'["g1"]["how"] = "done"
                 /\ LowestUnpublished(t)
                 /\ PublishedDays' = PublishedDays \cup {t}
                 /\ GeneratedDays' = GeneratedDays \cup {t}
                 /\ \A g \in GeneratedDays : g < t
      ]_vars

\* Completion is reported after 180 invocations have generated the 180 days
WCompletedAfterAll ==
    /\ outcome["g1"]["how"] = "complete"
    /\ GeneratedDays = 1..LastDay

\* C28: of two generator runs in flight for the same day, at most one has
\* called the oracle and at most one has written the content file.
CSameDayOverlap ==
    \A p, q \in Procs :
        (/\ p # q
         /\ InFlight(p) /\ InFlight(q)
         /\ local[p]["targetDay"] = local[q]["targetDay"]) =>
            /\ ~(Did(p, "oracle") /\ Did(q, "oracle"))
            /\ ~(Did(p, "file") /\ Did(q, "file"))

\* The fields the generator and the two handlers add to an entry
AddedFields ==
    {"editorialNote", "noteUpdatedAt", "heroImage", "imageUploadedAt",
     "hadResearchIntegration", "hadEditorialNote"}

\* Some topic of day d has its content file
HasContentFile(d) ==
    \E i \in 1..Len(topicBank[1]) :
        topicBank[1][i]["day"] = d /\ topicBank[1][i]["slug"] \in blog

\* C29: the initializer run on an existing store writes a store of
\* startDate, totalDays and posts only; every entry of a day without a
\* content file is gone, whatever it held, and an entry of a remaining day
\* holds none of editorialNote, heroImage, hadResearchIntegration and
\* hadEditorialNote (nor their timestamps), and 'pre-existing' in place of
\* the time it was generated at.
CReinitReplaces ==
    [][\A s \in StartDates :
          (InitSchedule(s) /\ topicBank # None /\ schedFile # None) =>
              LET posts == Posts(schedFile')
              IN  /\ DOMAIN schedFile'[1] = {"startDate", "totalDays", "posts"}
                  /\ \A d \in DOMAIN Store : ~HasContentFile(d) => d \notin DOMAIN posts
                  /\ \A d \in DOMAIN posts :
                        /\ HasContentFile(d)
                        /\ DOMAIN posts[d] \cap AddedFields = {}
                        /\ posts[d]["generatedAt"] # Timestamp
      ]_vars

\* Day 2 was generated by a run and the store initialised again: its entry
\* is a backfilled one, and nothing else is left in the store
WReinitialised ==
    /\ Topic(2)["slug"] \in blog
    /\ Topic(1)["slug"] \notin blog
    /\ schedFile # None
    /\ DOMAIN Store = {2}
    /\ Store[2]["generatedAt"] = "pre-existing"
    /\ DOMAIN Store[2] \cap AddedFields = {}

=============================================================================
